---- MODULE Spec2Model ----
(***************************************************************************)
(* A model of the core of src/src/core/origincore.ts: the schema           *)
(* validation and content-resolution pipeline (validatePage,               *)
(* resolveSharedSections), the three in-memory registries (section types,  *)
(* pages, templates), the programmatic SEO generator, the page builder,   *)
(* template instantiation and the validation of the configuration.         *)
(*                                                                         *)
(* JavaScript objects are functions from key strings to values; a key      *)
(* whose value is undefined is a key that is absent from the domain.       *)
(* The value `undefined` itself, where a whole object is missing, is the   *)
(* record Undefined.                                                       *)
(***************************************************************************)
EXTENDS Integers, Sequences, FiniteSets, TLC

VARIABLES
    globalAppConfig,    \* the validated configuration (origincore.ts:853-854)
    _sectionRegistry,   \* section type -> registry item (origincore.ts:607)
    _pageRegistry,      \* slug -> page (origincore.ts:987)
    _templateRegistry,  \* template id -> template (origincore.ts:1132)
    uuid,               \* number of identifiers randomUUID() has handed out
    seoRuns,            \* the invocations of applyProgrammaticSEO
    op,                 \* the operation called last
    arg,                \* its argument
    opts,               \* its options (validatePage's resolveShared)
    out,                \* its outcome: a returned value or a thrown error
    heap,               \* the objects callers and the core share by reference
    returned,           \* the calls made on those objects, with what they returned
    memoryState,        \* the toast list the hooks share (origincore.ts:942)
    toastTimeouts       \* the toasts queued for removal (origincore.ts:914)

vars == <<globalAppConfig, _sectionRegistry, _pageRegistry, _templateRegistry,
          uuid, seoRuns, op, arg, opts, out, heap, returned, memoryState, toastTimeouts>>

\* The object store and the record of the calls made on it.
objects == <<heap, returned>>

registries == <<_sectionRegistry, _pageRegistry, _templateRegistry>>

\* The state of the toast hook.
toasts == <<memoryState, toastTimeouts>>

(***************************************************************************)
(* Bounds of the model.                                                    *)
(***************************************************************************)
MaxSections == 2   \* longest section sequence of an input page
MaxRefs == 2       \* longest sharedSectionRefs list of an input page
MaxShared == 2     \* longest shared-sections collection of a configuration
MaxRules == 2      \* longest list of route rules of a configuration
MaxRuns == 2       \* invocations of applyProgrammaticSEO in one behaviour

(***************************************************************************)
(* Values and outcomes.                                                    *)
(***************************************************************************)
Undefined == [undefined |-> TRUE]

EmptyObject == [k \in {} |-> Undefined]

Return(v) == [status |-> "return", value |-> v]

Throw(name, message, code) ==
    [status |-> "throw", name |-> name, message |-> message, code |-> code]

\* new ValidationError(message, code): the first argument is the message.
ValidationError(message, code) == Throw("ValidationError", message, code)

Error(message) == Throw("Error", message, "")

NoOutcome == [status |-> "none"]

Put(obj, k, v) == [x \in DOMAIN obj \cup {k} |-> IF x = k THEN v ELSE obj[x]]

\* An array value, and a value that is not an array (a string, an object):
\* Array.isArray tells them apart.
JsArray(items) == [isArray |-> TRUE, items |-> items]

NonArray == [isArray |-> FALSE, items |-> <<>>]

\* Reference ids are written as strings; the ids in NonStringRefIds stand
\* for values that are not strings (the number 7, written as String(7)).
NonStringRefIds == {"7"}

IsString(refId) == refId \notin NonStringRefIds

SeqsUpTo(S, n) == UNION {[1..k -> S] : k \in 0..n}

(***************************************************************************)
(* Schema library.                                                         *)
(***************************************************************************)
fieldFormatEnum == {"markdown", "html"}

FieldTypes == {"text", "richText", "image", "cta", "form", "service", "aiPrompt"}

FieldRequired(type) ==
    CASE type = "text" -> {"id", "type", "value"}
      [] type = "richText" -> {"id", "type", "value", "format"}
      [] type = "image" -> {"id", "type", "src", "alt"}
      [] type = "cta" -> {"id", "type", "text", "href"}
      [] type = "form" -> {"id", "type", "fields"}
      [] type = "service" -> {"id", "type", "name", "description", "price", "duration"}
      [] type = "aiPrompt" -> {"id", "type", "template"}

FieldOptional(type) ==
    CASE type = "image" -> {"width", "height", "optimization"}
      [] type = "cta" -> {"variant", "size", "icon", "target"}
      [] type = "service" -> {"image"}
      [] type = "aiPrompt" -> {"variables", "constraints", "expectedFormat", "fallbackStrategy"}
      [] OTHER -> {}

\* fieldSchema.safeParse(f).success: the discriminator picks the variant,
\* every variant is strict. The scalar values the model draws are well
\* typed, so only the shape and the enumerations are checked.
fieldSchemaOk(f) ==
    /\ "type" \in DOMAIN f
    /\ f.type \in FieldTypes
    /\ FieldRequired(f.type) \subseteq DOMAIN f
    /\ DOMAIN f \subseteq FieldRequired(f.type) \cup FieldOptional(f.type)
    /\ (f.type = "richText" => f.format \in fieldFormatEnum)

sectionTypeEnum ==
    {"hero", "text", "form", "gallery", "services", "aiGenerated", "clusteredContent",
     "reviewsMarquee", "howItWorks", "ourServices", "serviceLocations",
     "pricingComparison", "faq", "bestRatedCleaners", "leadCapture"}

pageTypeEnum ==
    {"service", "home", "city", "about", "contact", "blog", "suburb", "cluster", "landing"}

SectionRequiredKeys == {"id", "type", "fields"}

SectionOptionalKeys == {"style", "tracking", "seo"}

SectionBlockKeys(k) ==
    CASE k = "style" -> {"intent", "align", "padding", "container"}
      [] k = "tracking" -> {"id", "events"}
      [] k = "seo" -> {"title", "description", "schema"}

\* sectionSchema.safeParse(s).success
sectionSchemaOk(s) ==
    /\ SectionRequiredKeys \subseteq DOMAIN s
    /\ DOMAIN s \subseteq SectionRequiredKeys \cup SectionOptionalKeys
    /\ s.type \in sectionTypeEnum
    /\ \A k \in DOMAIN s.fields : fieldSchemaOk(s.fields[k])
    /\ \A k \in DOMAIN s \cap SectionOptionalKeys : DOMAIN s[k] \subseteq SectionBlockKeys(k)

\* The timestamps z.string().datetime() accepts, among those the model draws.
Now == "2024-12-17T02:33:00.000Z"

IsDatetime(s) == s \in {Now}

PageRequiredKeys == {"id", "type", "slug", "sections", "lastModified", "lastModifiedBy"}

PageOptionalKeys ==
    {"status", "priority", "meta", "navigation", "locale", "clusterRefs",
     "sharedSectionRefs", "version", "publishedAt", "publishedBy"}

\* The attributes of pageSchema other than the elements of `sections`.
PageAttributesOk(p) ==
    /\ p # Undefined
    /\ PageRequiredKeys \subseteq DOMAIN p
    /\ DOMAIN p \subseteq PageRequiredKeys \cup PageOptionalKeys
    /\ p.type \in pageTypeEnum
    /\ ("sharedSectionRefs" \in DOMAIN p =>
            /\ p.sharedSectionRefs.isArray
            /\ \A i \in 1..Len(p.sharedSectionRefs.items) :
                   IsString(p.sharedSectionRefs.items[i]))
    /\ ("version" \in DOMAIN p => p.version > 0)
    /\ IsDatetime(p.lastModified)

\* pageSchema.safeParse(p).success: `sections: z.array(sectionSchema)` makes
\* every section part of the page schema.
pageSchemaOk(p) ==
    /\ PageAttributesOk(p)
    /\ \A i \in 1..Len(p.sections) : sectionSchemaOk(p.sections[i])

\* The value a successful parse returns: declared defaults are filled in.
fieldSchemaData(f) ==
    IF f.type # "aiPrompt" THEN f
    ELSE LET d1 == IF "variables" \in DOMAIN f THEN f ELSE Put(f, "variables", EmptyObject)
             d2 == IF "constraints" \in DOMAIN d1 THEN d1 ELSE Put(d1, "constraints", <<>>)
             d3 == IF "expectedFormat" \in DOMAIN d2 THEN d2
                   ELSE Put(d2, "expectedFormat", "markdown")
         IN  IF "fallbackStrategy" \in DOMAIN d3 THEN d3
             ELSE Put(d3, "fallbackStrategy", "retry")

sectionSchemaData(s) ==
    Put(s, "fields", [k \in DOMAIN s.fields |-> fieldSchemaData(s.fields[k])])

pageSchemaData(p) ==
    LET d0 == Put(p, "sections", [i \in 1..Len(p.sections) |-> sectionSchemaData(p.sections[i])])
        d1 == IF "clusterRefs" \in DOMAIN d0 THEN d0 ELSE Put(d0, "clusterRefs", JsArray(<<>>))
        d2 == IF "sharedSectionRefs" \in DOMAIN d1 THEN d1
              ELSE Put(d1, "sharedSectionRefs", JsArray(<<>>))
    IN  IF "version" \in DOMAIN d2 THEN d2 ELSE Put(d2, "version", 1)

(***************************************************************************)
(* Validation engine.                                                      *)
(***************************************************************************)
\* validationUtils.validateSafely(schema, data, errorCode), with the schema
\* given by its success predicate `ok` and its parsed value `data`.
validateSafely(ok, data, errorCode) ==
    IF ~ok THEN ValidationError("Validation failed", errorCode) ELSE Return(data)

typeGuards_isSection(data) == sectionSchemaOk(data)

(***************************************************************************)
(* Shared-section resolution.                                              *)
(***************************************************************************)
\* globalAppConfig.advancedConfig?.seo?.programmaticSEO
programmaticSEOConfig ==
    IF globalAppConfig.advancedConfig = Undefined THEN Undefined
    ELSE IF globalAppConfig.advancedConfig.seo = Undefined THEN Undefined
    ELSE globalAppConfig.advancedConfig.seo.programmaticSEO

\* globalAppConfig.advancedConfig?.seo?.programmaticSEO?.sharedSections ?? []
sharedSectionsOfConfig ==
    IF programmaticSEOConfig = Undefined THEN <<>> ELSE programmaticSEOConfig.sharedSections

\* sharedSections.find(s => s.id === refId): the first match, or undefined.
FindShared(sharedSections, refId) ==
    LET hits == {i \in 1..Len(sharedSections) : sharedSections[i].id = refId}
    IN  IF hits = {} THEN Undefined
        ELSE sharedSections[CHOOSE i \in hits : \A j \in hits : i <= j]

SharedSectionsOffOnlyWhenBoth(sharedSections) ==
    ~globalAppConfig.featureFlags.enableSharedSections /\ Len(sharedSections) = 0

\* The flag and the collection that make resolveSharedSections a no-op.
SharedSectionsOff(sharedSections) ==
    ~globalAppConfig.featureFlags.enableSharedSections \/ Len(sharedSections) = 0

AppendsRefUnguarded(sharedSections, refId, resolvedRefs) ==
    /\ FindShared(sharedSections, refId) # Undefined
    /\ refId \notin resolvedRefs

AppendsRefEveryTime(sharedSections, refId, resolvedRefs) ==
    /\ FindShared(sharedSections, refId) # Undefined
    /\ typeGuards_isSection(FindShared(sharedSections, refId).section)

\* Whether the loop appends the shared section for refId (lines 1067-1081).
AppendsRef(sharedSections, refId, resolvedRefs) ==
    LET sharedSec == FindShared(sharedSections, refId)
    IN  /\ sharedSec # Undefined
        /\ typeGuards_isSection(sharedSec.section)
        /\ refId \notin resolvedRefs

PushFront(updatedSections, section) == <<section>> \o updatedSections

\* updatedSections.push(sharedSec.section)
PushSection(updatedSections, section) == Append(updatedSections, section)

\* The for loop of resolveSharedSections from position i of the ref list.
RECURSIVE ResolveLoop(_, _, _, _, _)
ResolveLoop(page, sharedSections, i, updatedSections, resolvedRefs) ==
    LET refs == page.sharedSectionRefs.items
    IN  IF i > Len(refs)
        THEN Return(Put(page, "sections", updatedSections))
        ELSE IF ~IsString(refs[i])
        THEN ValidationError("INVALID_REF_ID",
                             "Invalid shared section reference: " \o refs[i])
        ELSE IF AppendsRef(sharedSections, refs[i], resolvedRefs)
        THEN ResolveLoop(page, sharedSections, i + 1,
                         PushSection(updatedSections,
                                     FindShared(sharedSections, refs[i]).section),
                         resolvedRefs \cup {refs[i]})
        ELSE ResolveLoop(page, sharedSections, i + 1, updatedSections, resolvedRefs)

resolveSharedSections(page) ==
    LET sharedSections == sharedSectionsOfConfig
    IN  IF page = Undefined
        THEN ValidationError("PAGE_REQUIRED",
                             "Page is required for resolving shared sections")
        ELSE IF SharedSectionsOff(sharedSections)
        THEN Return(page)
        ELSE IF "sharedSectionRefs" \notin DOMAIN page \/ ~page.sharedSectionRefs.isArray
        THEN ValidationError("INVALID_SHARED_REFS", "sharedSectionRefs must be an array")
        ELSE ResolveLoop(page, sharedSections, 1,
                         IF "sections" \in DOMAIN page THEN page.sections ELSE <<>>,
                         {})

(***************************************************************************)
(* Page validation.                                                        *)
(***************************************************************************)
\* The index (from 0) of the first section of the validated page that fails
\* the Section schema, or -1: the forEach of step 2 throws at that index.
FirstInvalidSection(sections) ==
    LET bad == {i \in 1..Len(sections) : ~sectionSchemaOk(sections[i])}
    IN  IF bad = {} THEN -1 ELSE (CHOOSE i \in bad : \A j \in bad : i <= j) - 1

\* Steps 2 and 3 of validatePage, on the page step 1 validated.
ValidateSections(validatedPage, options) ==
    LET index == FirstInvalidSection(validatedPage.sections)
    IN  IF index >= 0
        THEN ValidationError("Validation failed", "INVALID_SECTION_" \o ToString(index))
        ELSE IF options.resolveShared
        THEN resolveSharedSections(validatedPage)
        ELSE Return(validatedPage)

validatePageSectionsFirst(page, options) ==
    IF page # Undefined /\ "sections" \in DOMAIN page
       /\ FirstInvalidSection(page.sections) >= 0
    THEN ValidationError("Validation failed",
                         "INVALID_SECTION_" \o ToString(FirstInvalidSection(page.sections)))
    ELSE LET step1 == validateSafely(pageSchemaOk(page), pageSchemaData(page),
                                     "INVALID_PAGE_STRUCTURE")
         IN  IF step1.status = "throw" THEN step1
             ELSE ValidateSections(step1.value, options)

validatePage(page, options) ==
    LET step1 == validateSafely(pageSchemaOk(page), pageSchemaData(page),
                                "INVALID_PAGE_STRUCTURE")
    IN  IF step1.status = "throw" THEN step1
        ELSE ValidateSections(step1.value, options)

(***************************************************************************)
(* Inputs of the pipeline: sections, shared-section entries, pages.        *)
(***************************************************************************)
SecHero == [id |-> "sec-hero", type |-> "hero", fields |-> EmptyObject]

SecText ==
    [id |-> "sec-text", type |-> "text",
     fields |-> [intro |-> [id |-> "intro", type |-> "text", value |-> "Welcome"]]]

\* A section whose type is not in the catalog of section types.
SecBroken == [id |-> "sec-broken", type |-> "carousel", fields |-> EmptyObject]

SecPromo ==
    [id |-> "sec-promo", type |-> "leadCapture", fields |-> EmptyObject,
     style |-> EmptyObject]

SecFooter == [id |-> "sec-footer", type |-> "faq", fields |-> EmptyObject]

\* A payload with a key the strict Section schema does not know.
SecStale ==
    [id |-> "sec-stale", type |-> "leadCapture", fields |-> EmptyObject,
     legacyLayout |-> "wide"]

SectionPool == {SecHero, SecText, SecBroken}

SharedEntryPool ==
    {[id |-> "promo", section |-> SecPromo],
     [id |-> "footer", section |-> SecFooter],
     [id |-> "promo", section |-> SecStale]}

RefIdPool == {"promo", "footer", "does-not-exist", "7"}

\* A page as a caller hands it over: `type`, `sections` and, unless refs is
\* Undefined, `sharedSectionRefs` as given; extraKeys are unknown keys.
MkPage(type, sections, refs, extraKeys) ==
    LET base == [id |-> "page-1", type |-> type, slug |-> "/sydney/house-cleaning",
                 sections |-> sections, lastModified |-> Now,
                 lastModifiedBy |-> "editor"]
        withRefs == IF refs = Undefined THEN base ELSE Put(base, "sharedSectionRefs", refs)
    IN  [k \in DOMAIN withRefs \cup extraKeys |->
            IF k \in extraKeys THEN "unexpected" ELSE withRefs[k]]

\* Pages that vary the sections and the top-level attributes.
StructureInputs ==
    {MkPage(t, ss, r, x) :
        t \in {"city", "microsite"},
        ss \in SeqsUpTo(SectionPool, MaxSections),
        r \in {Undefined, JsArray(<<"promo">>)},
        x \in {{}, {"draftNotes"}}}

\* Pages that vary the shared-section references.
RefInputs ==
    {MkPage("city", ss, r, {}) :
        ss \in {<<>>, <<SecText, SecHero>>},
        r \in {NonArray} \cup {JsArray(l) : l \in SeqsUpTo(RefIdPool, MaxRefs)}}

PageInputs == StructureInputs \cup RefInputs \cup {Undefined}

(***************************************************************************)
(* Configurations.                                                         *)
(***************************************************************************)
appConfigRefinementSEOOnly(data) ==
    ~(data.advancedConfig # Undefined /\ ~data.featureFlags.enableAdvancedSEO)

\* The refinement of appConfigSchema (lines 719-726).
appConfigRefinement(data) ==
    ~(/\ data.advancedConfig # Undefined
      /\ ~data.featureFlags.enableAdvancedSEO
      /\ ~data.featureFlags.enableAIContent)

MkConfig(progSEO, aiContent, sharedOn, advanced) ==
    [featureFlags |-> [enableProgrammaticSEO |-> progSEO,
                       enableAIContent |-> aiContent,
                       enableAdvancedSEO |-> advanced # Undefined,
                       enableSharedSections |-> sharedOn],
     advancedConfig |-> advanced]

MkProgrammaticSEO(enabled, routeRules) ==
    [programmaticSEO |-> [enabled |-> enabled, routeRules |-> routeRules,
                          sharedSections |-> <<>>]]

\* The configurations the pipeline is checked under: as shipped
\* (sharedSections: []), with the shared-sections flag on or off and the
\* advanced configuration or its seo block present or absent.
PipelineConfigs ==
    {MkConfig(TRUE, TRUE, sharedOn, advanced) :
        sharedOn \in BOOLEAN,
        advanced \in {Undefined,
                      [seo |-> Undefined, aiContent |-> Undefined],
                      [seo |-> MkProgrammaticSEO(TRUE, <<>>), aiContent |-> Undefined]}}

(***************************************************************************)
(* The pipeline as a state machine: a page arrives, the shared-sections    *)
(* collection may be written, validatePage or resolveSharedSections runs.  *)
(***************************************************************************)
NoRuns == <<>>

InitPipeline ==
    /\ globalAppConfig \in PipelineConfigs
    /\ _sectionRegistry = EmptyObject
    /\ _pageRegistry = EmptyObject
    /\ _templateRegistry = EmptyObject
    /\ uuid = 0
    /\ seoRuns = NoRuns
    /\ op = "none"
    /\ arg \in PageInputs
    /\ opts = [resolveShared |-> FALSE]
    /\ out = NoOutcome
    /\ heap = <<>>
    /\ returned = <<>>
    /\ memoryState = [toasts |-> <<>>]
    /\ toastTimeouts = {}

\* Object.freeze (line 854) freezes the top level only: the nested
\* shared-sections array stays writable, and its entries' payloads are
\* typed `any`.
PushSharedSection(entry) ==
    /\ op = "none"
    /\ programmaticSEOConfig # Undefined
    /\ Len(sharedSectionsOfConfig) < MaxShared
    /\ globalAppConfig' =
           [globalAppConfig EXCEPT !.advancedConfig.seo.programmaticSEO.sharedSections =
               Append(@, entry)]
    /\ UNCHANGED <<toasts, registries, uuid, seoRuns, op, arg, opts, out, objects>>

ValidatePageCall(options) ==
    /\ op = "none"
    /\ op' = "validatePage"
    /\ opts' = options
    /\ out' = validatePage(arg, options)
    /\ UNCHANGED <<toasts, globalAppConfig, registries, uuid, seoRuns, arg, objects>>

ResolveSharedSectionsCall ==
    /\ op = "none"
    /\ op' = "resolveSharedSections"
    /\ out' = resolveSharedSections(arg)
    /\ UNCHANGED <<toasts, globalAppConfig, registries, uuid, seoRuns, arg, opts, objects>>

NextPipeline ==
    \/ \E entry \in SharedEntryPool : PushSharedSection(entry)
    \/ \E resolveShared \in BOOLEAN : ValidatePageCall([resolveShared |-> resolveShared])
    \/ ResolveSharedSectionsCall

SpecPipeline == InitPipeline /\ [][NextPipeline]_vars

(***************************************************************************)
(* Registry layer.                                                         *)
(***************************************************************************)
\* registry[key]: undefined when the key is absent.
Lookup(registry, key) == IF key \in DOMAIN registry THEN registry[key] ELSE Undefined

\* The outcome of an operation together with the registry it leaves.
Effect(registry, outcome) == [registry |-> registry, outcome |-> outcome]

sectionRegistryUtils_has(registry, type) == Lookup(registry, type) # Undefined

sectionRegistryUtils_registerOverwriting(registry, type, item) ==
    Effect(Put(registry, type, item), Return(Undefined))

sectionRegistryUtils_register(registry, type, item) ==
    IF Lookup(registry, type) # Undefined
    THEN Effect(registry, Error("Section type " \o type \o " already registered"))
    ELSE Effect(Put(registry, type, item), Return(Undefined))

registerPageOverwriting(registry, page) ==
    Effect(Put(registry, page.slug, page), Return(Undefined))

registerPage(registry, page) ==
    IF Lookup(registry, page.slug) # Undefined
    THEN Effect(registry, Error("Page slug " \o page.slug \o " already registered"))
    ELSE Effect(Put(registry, page.slug, page), Return(Undefined))

getPageBySlugMissing(registry, slug) == Undefined

getPageBySlug(registry, slug) == Lookup(registry, slug)

\* Object.values(_pageRegistry), as the set of its pages.
listAllPages(registry) == {registry[slug] : slug \in DOMAIN registry}

templateUtils_registerOverwriting(registry, template) ==
    Effect(Put(registry, template.id, template), Return(Undefined))

templateUtils_register(registry, template) ==
    IF Lookup(registry, template.id) # Undefined
    THEN Effect(registry, ValidationError("Template already exists", "TEMPLATE_EXISTS"))
    ELSE Effect(Put(registry, template.id, template), Return(Undefined))

(***************************************************************************)
(* Page builder.                                                           *)
(***************************************************************************)
\* randomUUID(): the n-th identifier handed out.
randomUUID(n) == "uuid-" \o ToString(n)

\* pageBuilderUtils.createSection(type, fields), with the identifier
\* randomUUID() returns next.
createSection(registry, type, fields, id) ==
    IF ~sectionRegistryUtils_has(registry, type)
    THEN Error("Cannot create section: type " \o type \o " not found in registry")
    ELSE Return([id |-> id, type |-> type, fields |-> fields, style |-> EmptyObject,
                 tracking |-> EmptyObject, seo |-> EmptyObject])

\* !slug || slug.trim() === '', among the slugs the model draws.
IsBlank(slug) == slug \in {"", " "}

createPageGenericError(type, slug, id) ==
    IF type \notin pageTypeEnum \/ IsBlank(slug)
    THEN Error("Cannot create page: type " \o type \o " not found")
    ELSE Return([id |-> id, type |-> type, slug |-> slug, sections |-> <<>>,
                 clusterRefs |-> JsArray(<<>>), sharedSectionRefs |-> JsArray(<<>>),
                 meta |-> EmptyObject, version |-> 1, lastModified |-> Now,
                 lastModifiedBy |-> "system"])

\* pageBuilderUtils.createPage(type, slug); meta's members and locale are
\* undefined, so meta is the empty object and locale is absent.
createPage(type, slug, id) ==
    IF type \notin pageTypeEnum
    THEN ValidationError("Invalid page type: " \o type, "INVALID_PAGE_TYPE")
    ELSE IF IsBlank(slug)
    THEN ValidationError("Invalid slug: must be non-empty string", "INVALID_PAGE_SLUG")
    ELSE Return([id |-> id, type |-> type, slug |-> slug, sections |-> <<>>,
                 clusterRefs |-> JsArray(<<>>), sharedSectionRefs |-> JsArray(<<>>),
                 meta |-> EmptyObject, version |-> 1, lastModified |-> Now,
                 lastModifiedBy |-> "system"])

(***************************************************************************)
(* Programmatic SEO generator.                                             *)
(***************************************************************************)
cities == <<"sydney", "melbourne", "brisbane">>

services == <<"house-cleaning", "end-of-lease">>

SlugOf(city, service) == "/" \o city \o "/" \o service

\* globalAppConfig.advancedConfig?.aiContent?.enabled
aiContentEnabled ==
    /\ globalAppConfig.advancedConfig # Undefined
    /\ globalAppConfig.advancedConfig.aiContent # Undefined
    /\ globalAppConfig.advancedConfig.aiContent.enabled

\* A string that is present and not empty.
Truthy(obj, key) == key \in DOMAIN obj /\ obj[key] # ""

\* extractProgrammaticSEODetails(): the route rules, and the instructions
\* of the first rule that carries any.
extractProgrammaticSEODetails ==
    LET seoConfig == programmaticSEOConfig
        routeRules == IF seoConfig = Undefined THEN <<>> ELSE seoConfig.routeRules
        carrying == {i \in 1..Len(routeRules) : Truthy(routeRules[i], "aiInstructions")}
    IN  [routeRules |-> routeRules,
         aiInstructions |->
             IF carrying = {} THEN ""
             ELSE routeRules[CHOOSE i \in carrying : \A j \in carrying : i <= j].aiInstructions]

\* generateAIContentSections(instructions, variables): "" stands for absent
\* instructions.
generateAIContentSections(registry, instructions, variables, id) ==
    IF instructions = "" \/ ~aiContentEnabled THEN Return(<<>>)
    ELSE LET generatedText == "AI generated content for " \o variables.city
                              \o " " \o variables.service
             textField == [id |-> "intro", type |-> "text", value |-> generatedText]
             section == createSection(registry, "text", [intro |-> textField], id)
         IN  IF section.status = "throw" THEN section ELSE Return(<<section.value>>)

SeoDisabledOnlyWhenBoth ==
    /\ ~globalAppConfig.featureFlags.enableProgrammaticSEO
    /\ (programmaticSEOConfig = Undefined \/ ~programmaticSEOConfig.enabled)

\* The early return of applyProgrammaticSEO (line 1003).
SeoDisabled ==
    \/ ~globalAppConfig.featureFlags.enableProgrammaticSEO
    \/ programmaticSEOConfig = Undefined
    \/ ~programmaticSEOConfig.enabled

\* The loops visit rule after rule, city after city, service after service:
\* position n (from 0) is the n-th (rule, city, service) triple.
PairsPerRule == Len(cities) * Len(services)

RuleAt(routeRules, n) == routeRules[(n \div PairsPerRule) + 1]

CityAt(n) == cities[((n % PairsPerRule) \div Len(services)) + 1]

ServiceAt(n) == services[(n % Len(services)) + 1]

GeneratesFromLocations(rule) ==
    /\ rule.type = "dynamic"
    /\ "generateFrom" \in DOMAIN rule
    /\ rule.generateFrom = "locations"

\* The condition of line 1015.
WantsAIContent(rule) ==
    /\ globalAppConfig.featureFlags.enableAIContent
    /\ aiContentEnabled
    /\ Truthy(rule, "aiInstructions")

\* A run of applyProgrammaticSEO: where it is, what it waits for, what it
\* has registered, how it ended.
IdleRun ==
    [pc |-> "idle", pos |-> 0, pending |-> <<>>, registered |-> <<>>,
     outcome |-> NoOutcome]

RunState(run, pages, ids) == [run |-> run, pages |-> pages, ids |-> ids]

Finished(run, outcome) == [run EXCEPT !.pc = "done", !.pending = <<>>, !.outcome = outcome]

\* Lines 1018-1020 for the pair at the run's position: build the page, add
\* the generated sections, register it.
RegisterGenerated(run, pages, ids, generatedSections) ==
    LET slug == SlugOf(CityAt(run.pos), ServiceAt(run.pos))
        created == createPage("city", slug, randomUUID(ids + 1))
        newPage == [created.value EXCEPT !.sections = @ \o generatedSections]
        done == registerPage(pages, newPage)
    IN  IF created.status = "throw" THEN RunState(Finished(run, created), pages, ids)
        ELSE IF done.outcome.status = "throw"
        THEN RunState(Finished(run, done.outcome), pages, ids + 1)
        ELSE RunState([run EXCEPT !.pos = @ + 1, !.pc = "running", !.pending = <<>>,
                                  !.registered = Append(@, slug)],
                      done.registry, ids + 1)

\* The run from its position up to its next await, its error or its end.
RECURSIVE Advance(_, _, _, _)
Advance(run, pages, ids, routeRules) ==
    IF run.pos >= Len(routeRules) * PairsPerRule
    THEN RunState(Finished(run, Return(Undefined)), pages, ids)
    ELSE LET rule == RuleAt(routeRules, run.pos)
             city == CityAt(run.pos)
             service == ServiceAt(run.pos)
             skip == [run EXCEPT !.pos = @ + 1]
         IN  IF ~GeneratesFromLocations(rule)
             THEN Advance(skip, pages, ids, routeRules)
             ELSE IF getPageBySlug(pages, SlugOf(city, service)) # Undefined
             THEN Advance(skip, pages, ids, routeRules)
             ELSE IF WantsAIContent(rule)
             THEN LET generated ==
                          generateAIContentSections(_sectionRegistry, rule.aiInstructions,
                                                    [city |-> city, service |-> service],
                                                    randomUUID(ids + 1))
                  IN  IF generated.status = "throw"
                      THEN RunState(Finished(run, generated), pages, ids)
                      ELSE RunState([run EXCEPT !.pc = "awaiting",
                                                !.pending = generated.value],
                                    pages, ids + Len(generated.value))
             ELSE LET next == RegisterGenerated(run, pages, ids, <<>>)
                  IN  IF next.run.pc = "done" THEN next
                      ELSE Advance(next.run, next.pages, next.ids, routeRules)

\* applyProgrammaticSEO() from its call to its first await, error or end.
applyProgrammaticSEO(run, pages, ids) ==
    IF SeoDisabled THEN RunState(Finished(run, Return(Undefined)), pages, ids)
    ELSE Advance([run EXCEPT !.pc = "running"], pages, ids,
                 extractProgrammaticSEODetails.routeRules)

\* The run after its await: register the page, go on to the next await.
resumeProgrammaticSEO(run, pages, ids) ==
    LET next == RegisterGenerated(run, pages, ids, run.pending)
    IN  IF next.run.pc = "done" THEN next
        ELSE Advance(next.run, next.pages, next.ids,
                     extractProgrammaticSEODetails.routeRules)

(***************************************************************************)
(* The registries and the generator as a state machine. The host calls     *)
(* into the core one call at a time: while a run of applyProgrammaticSEO   *)
(* awaits, nothing else is called.                                         *)
(***************************************************************************)
LocationsRule ==
    [pattern |-> "/:city/:service", type |-> "dynamic", generateFrom |-> "locations",
     aiInstructions |-> "Generate city-service pages using AI"]

\* A locations rule that carries no instructions.
PlainLocationsRule ==
    [pattern |-> "/:city/:service", type |-> "dynamic", generateFrom |-> "locations"]

StaticRule ==
    [pattern |-> "/about", type |-> "static", aiInstructions |-> "Describe the company"]

RulePool == {LocationsRule, PlainLocationsRule, StaticRule}

AdvancedConfigs ==
    {Undefined}
    \cup {[seo |-> seo, aiContent |-> ai] :
            seo \in {Undefined}
                    \cup {MkProgrammaticSEO(enabled, rules) :
                            enabled \in BOOLEAN, rules \in SeqsUpTo(RulePool, MaxRules)},
            ai \in {Undefined, [enabled |-> TRUE]}}

\* The configurations the generator is checked under: every combination of
\* the two kill switches, the two AI gates and the route rules that passes
\* the refinement of appConfigSchema.
SeoConfigs ==
    {c \in {MkConfig(progSEO, aiContent, TRUE, advanced) :
                progSEO \in BOOLEAN, aiContent \in BOOLEAN, advanced \in AdvancedConfigs} :
        appConfigRefinement(c)}

SectionTypePool == {"text"}

RegistryItemPool ==
    {[label |-> "Text", icon |-> "type", description |-> "A block of text"],
     [label |-> "Copy", icon |-> "pilcrow", description |-> "Body copy"]}

\* Pages a caller registers at a slug the generator also produces.
CallerPagePool ==
    {[id |-> "page-a", type |-> "landing", slug |-> SlugOf("sydney", "house-cleaning"),
      sections |-> <<>>, clusterRefs |-> JsArray(<<>>),
      sharedSectionRefs |-> JsArray(<<>>), meta |-> EmptyObject, version |-> 1,
      lastModified |-> Now, lastModifiedBy |-> "editor"],
     [id |-> "page-b", type |-> "city", slug |-> SlugOf("sydney", "house-cleaning"),
      sections |-> <<SecHero>>, clusterRefs |-> JsArray(<<>>),
      sharedSectionRefs |-> JsArray(<<>>), meta |-> EmptyObject, version |-> 1,
      lastModified |-> Now, lastModifiedBy |-> "editor"]}

TemplatePool ==
    {[id |-> "tpl-hero", name |-> name, section |-> SecHero, variables |-> <<>>,
      tags |-> <<>>] : name \in {"Hero", "Hero, wide"}}

Init ==
    /\ globalAppConfig \in SeoConfigs
    /\ _sectionRegistry = EmptyObject
    /\ _pageRegistry = EmptyObject
    /\ _templateRegistry = EmptyObject
    /\ uuid = 0
    /\ seoRuns = [i \in 1..MaxRuns |-> IdleRun]
    /\ op = "none"
    /\ arg = Undefined
    /\ opts = [resolveShared |-> FALSE]
    /\ out = NoOutcome
    /\ heap = <<>>
    /\ returned = <<>>
    /\ memoryState = [toasts |-> <<>>]
    /\ toastTimeouts = {}

\* No run of applyProgrammaticSEO is waiting at an await.
Quiescent == \A i \in DOMAIN seoRuns : seoRuns[i].pc # "awaiting"

RegisterSectionCall(type, item) ==
    LET effect == sectionRegistryUtils_register(_sectionRegistry, type, item)
    IN  /\ Quiescent
        /\ op' = "sectionRegistryUtils.register"
        /\ arg' = [type |-> type, item |-> item]
        /\ out' = effect.outcome
        /\ _sectionRegistry' = effect.registry
        /\ UNCHANGED <<toasts, globalAppConfig, _pageRegistry, _templateRegistry, uuid, seoRuns, opts,
                       objects>>

RegisterPageCall(page) ==
    LET effect == registerPage(_pageRegistry, page)
    IN  /\ Quiescent
        /\ op' = "registerPage"
        /\ arg' = page
        /\ out' = effect.outcome
        /\ _pageRegistry' = effect.registry
        /\ UNCHANGED <<toasts, globalAppConfig, _sectionRegistry, _templateRegistry, uuid, seoRuns,
                       opts, objects>>

RegisterTemplateCall(template) ==
    LET effect == templateUtils_register(_templateRegistry, template)
    IN  /\ Quiescent
        /\ op' = "templateUtils.register"
        /\ arg' = template
        /\ out' = effect.outcome
        /\ _templateRegistry' = effect.registry
        /\ UNCHANGED <<toasts, globalAppConfig, _sectionRegistry, _pageRegistry, uuid, seoRuns, opts,
                       objects>>

\* What a step of run i leaves behind.
SeoStep(i, next) ==
    /\ seoRuns' = [seoRuns EXCEPT ![i] = next.run]
    /\ _pageRegistry' = next.pages
    /\ uuid' = next.ids
    /\ op' = "applyProgrammaticSEO"
    /\ arg' = [run |-> i]
    /\ out' = next.run.outcome
    /\ UNCHANGED <<toasts, globalAppConfig, _sectionRegistry, _templateRegistry, opts, objects>>

\* The i-th call of applyProgrammaticSEO, made when the calls before it
\* have settled.
ApplyProgrammaticSEOCall(i) ==
    /\ Quiescent
    /\ seoRuns[i].pc = "idle"
    /\ \A j \in 1..(i - 1) : seoRuns[j].pc = "done"
    /\ SeoStep(i, applyProgrammaticSEO(seoRuns[i], _pageRegistry, uuid))

\* Run i goes on after the await of line 1016.
ApplyProgrammaticSEOResume(i) ==
    /\ seoRuns[i].pc = "awaiting"
    /\ SeoStep(i, resumeProgrammaticSEO(seoRuns[i], _pageRegistry, uuid))

Next ==
    \/ \E type \in SectionTypePool, item \in RegistryItemPool : RegisterSectionCall(type, item)
    \/ \E page \in CallerPagePool : RegisterPageCall(page)
    \/ \E template \in TemplatePool : RegisterTemplateCall(template)
    \/ \E i \in 1..MaxRuns : ApplyProgrammaticSEOCall(i)
    \/ \E i \in 1..MaxRuns : ApplyProgrammaticSEOResume(i)

Spec == Init /\ [][Next]_vars

(***************************************************************************)
(* Properties of the registries and the generator (checked under Spec).    *)
(***************************************************************************)
\* C1: in each of the three registries a register call whose key is already
\* present fails with an error and leaves the registry as it was: the entry
\* stored first is still the one a lookup returns.
C1_DuplicateRegisterRejected ==
    [][/\ (op' = "registerPage" /\ arg'.slug \in DOMAIN _pageRegistry) =>
              /\ out'.status = "throw"
              /\ _pageRegistry' = _pageRegistry
              /\ getPageBySlug(_pageRegistry', arg'.slug) = _pageRegistry[arg'.slug]
       /\ (op' = "sectionRegistryUtils.register" /\ arg'.type \in DOMAIN _sectionRegistry) =>
              /\ out'.status = "throw"
              /\ _sectionRegistry' = _sectionRegistry
       /\ (op' = "templateUtils.register" /\ arg'.id \in DOMAIN _templateRegistry) =>
              /\ out'.status = "throw"
              /\ _templateRegistry' = _templateRegistry]_vars

\* A second page was offered for a taken slug and the first is still stored.
C1_Witness ==
    /\ op = "registerPage"
    /\ out.status = "throw"
    /\ arg.slug \in DOMAIN _pageRegistry
    /\ _pageRegistry[arg.slug] # arg
    /\ _pageRegistry[arg.slug] \in CallerPagePool

\* Both kill switches of the generator, read from the configuration.
BothSwitchesOn ==
    /\ globalAppConfig.featureFlags.enableProgrammaticSEO
    /\ globalAppConfig.advancedConfig # Undefined
    /\ globalAppConfig.advancedConfig.seo # Undefined
    /\ globalAppConfig.advancedConfig.seo.programmaticSEO.enabled

ConfiguredRules ==
    IF globalAppConfig.advancedConfig = Undefined THEN <<>>
    ELSE IF globalAppConfig.advancedConfig.seo = Undefined THEN <<>>
    ELSE globalAppConfig.advancedConfig.seo.programmaticSEO.routeRules

\* Some route rule is dynamic and generates from locations.
HasLocationsRule ==
    \E k \in 1..Len(ConfiguredRules) :
        /\ ConfiguredRules[k].type = "dynamic"
        /\ "generateFrom" \in DOMAIN ConfiguredRules[k]
        /\ ConfiguredRules[k].generateFrom = "locations"

\* The slugs of the cross product of cities and services.
CrossProductSlugs ==
    {SlugOf(cities[c], services[v]) : c \in 1..Len(cities), v \in 1..Len(services)}

GeneratedSlugs == IF HasLocationsRule THEN CrossProductSlugs ELSE {}

\* C2: when a run of applyProgrammaticSEO has completed and the next run
\* completes after it (both kill switches on), the later run raises no error,
\* registers no page, and the page registry holds exactly one page for every
\* generated slug.
C2_RerunRegistersNothing ==
    \A i \in 2..MaxRuns :
        (/\ BothSwitchesOn
         /\ seoRuns[i - 1].outcome.status = "return"
         /\ seoRuns[i].pc = "done") =>
            /\ seoRuns[i].outcome.status = "return"
            /\ seoRuns[i].registered = <<>>
            /\ \A slug \in GeneratedSlugs :
                   Cardinality({p \in listAllPages(_pageRegistry) : p.slug = slug}) = 1

\* The first run registered a page for every pair, the second run is over.
C2_Witness ==
    /\ BothSwitchesOn
    /\ Len(seoRuns[1].registered) = PairsPerRule
    /\ seoRuns[1].outcome.status = "return"
    /\ seoRuns[2].pc = "done"
    /\ seoRuns[2].registered = <<>>

\* C3: with both kill switches on and a dynamic rule that generates from
\* locations, a run of applyProgrammaticSEO started from any state of the
\* registries completes without error, and afterwards every (city, service)
\* pair has a page of type city registered at its slug, whether or not AI
\* content was generated.
C3_EveryPairGetsCityPage ==
    \A i \in 1..MaxRuns :
        (BothSwitchesOn /\ HasLocationsRule /\ seoRuns[i].pc = "done") =>
            /\ seoRuns[i].outcome.status = "return"
            /\ \A slug \in CrossProductSlugs :
                   /\ slug \in DOMAIN _pageRegistry
                   /\ _pageRegistry[slug].type = "city"

\* C4: applyProgrammaticSEO leaves the three registries unchanged whenever
\* the enableProgrammaticSEO flag is false, the programmaticSEO.enabled flag is
\* false or the advanced configuration is absent; it registers pages only
\* when both are true.
C4_NoOpUnlessBothSwitches ==
    [][(op' = "applyProgrammaticSEO" /\ ~BothSwitchesOn) =>
           /\ UNCHANGED registries
           /\ out' = Return(Undefined)]_vars

\* A run is over with the feature flag off, the advanced flag on and a
\* locations rule configured.
C4_Witness ==
    /\ op = "applyProgrammaticSEO"
    /\ seoRuns[1].pc = "done"
    /\ ~globalAppConfig.featureFlags.enableProgrammaticSEO
    /\ HasLocationsRule
    /\ globalAppConfig.advancedConfig.seo.programmaticSEO.enabled
    /\ CrossProductSlugs \cap DOMAIN _pageRegistry = {}

(***************************************************************************)
(* Properties of the pipeline (checked under SpecPipeline).                *)
(***************************************************************************)
ValidateCalled == op = "validatePage"

ResolveCalled == op = "resolveSharedSections"

\* The argument is a page whose sharedSectionRefs is an array of strings.
HasStringRefs(page) ==
    /\ page # Undefined
    /\ "sharedSectionRefs" \in DOMAIN page
    /\ page.sharedSectionRefs.isArray
    /\ \A i \in 1..Len(page.sharedSectionRefs.items) :
           IsString(page.sharedSectionRefs.items[i])

RefsOf(page) == page.sharedSectionRefs.items

\* The shared-sections collection the configuration holds now.
SharedPool ==
    IF globalAppConfig.advancedConfig = Undefined THEN <<>>
    ELSE IF globalAppConfig.advancedConfig.seo = Undefined THEN <<>>
    ELSE globalAppConfig.advancedConfig.seo.programmaticSEO.sharedSections

ResolutionActive ==
    globalAppConfig.featureFlags.enableSharedSections /\ SharedPool # <<>>

\* refId has no entry in the collection.
Dangling(refId) == \A i \in 1..Len(SharedPool) : SharedPool[i].id # refId

\* The entry a lookup of refId finds: the first one with that id.
EntryOf(refId) ==
    SharedPool[CHOOSE i \in 1..Len(SharedPool) :
                  /\ SharedPool[i].id = refId
                  /\ \A j \in 1..(i - 1) : SharedPool[j].id # refId]

\* refId has an entry, and the entry's payload is not a Section.
Malformed(refId) == ~Dangling(refId) /\ ~sectionSchemaOk(EntryOf(refId).section)

Resolvable(refId) == ~Dangling(refId) /\ sectionSchemaOk(EntryOf(refId).section)

\* The sections a call appended to the input's section sequence.
Appended ==
    SubSeq(out.value.sections, Len(arg.sections) + 1, Len(out.value.sections))

\* C5: validatePage on a page that fails the Page schema fails with a
\* ValidationError whose code is INVALID_PAGE_STRUCTURE, never with a code
\* INVALID_SECTION_i: the per-section step and the resolution are not reached.
C5_StructureFailsFirst ==
    (ValidateCalled /\ ~pageSchemaOk(arg)) =>
        /\ out.status = "throw"
        /\ out.name = "ValidationError"
        /\ out.code = "INVALID_PAGE_STRUCTURE"

\* A page with a type outside the enumeration and a section outside the catalog.
C5_Witness ==
    /\ ValidateCalled
    /\ arg # Undefined
    /\ arg.type \notin pageTypeEnum
    /\ Len(arg.sections) > 0
    /\ ~sectionSchemaOk(arg.sections[1])
    /\ out.status = "throw"
    /\ out.code = "INVALID_PAGE_STRUCTURE"

\* C6: for a page whose top-level attributes are all valid and whose first
\* offending section is at index i, validatePage fails with a ValidationError
\* whose code is INVALID_SECTION_i.
C6_SectionIndexReported ==
    (/\ ValidateCalled
     /\ PageAttributesOk(arg)
     /\ FirstInvalidSection(arg.sections) >= 0) =>
        /\ out.status = "throw"
        /\ out.name = "ValidationError"
        /\ out.code = "INVALID_SECTION_" \o ToString(FirstInvalidSection(arg.sections))

\* C7: resolveSharedSections raises no error for a ref id that is absent from
\* the collection or whose entry's payload fails the Section schema: such refs
\* are skipped, nothing is appended for them, and a page all of whose refs are
\* dangling comes back with its original section sequence.
C7_UnusableRefsSkipped ==
    (ResolveCalled /\ HasStringRefs(arg)) =>
        /\ out.status = "return"
        /\ \A j \in 1..Len(Appended) :
               \E i \in 1..Len(RefsOf(arg)) :
                   /\ Resolvable(RefsOf(arg)[i])
                   /\ Appended[j] = EntryOf(RefsOf(arg)[i]).section
        /\ (\A i \in 1..Len(RefsOf(arg)) : Dangling(RefsOf(arg)[i])) =>
               out.value.sections = arg.sections

\* Resolution ran over a dangling ref and a ref with a malformed payload.
C7_Witness ==
    /\ ResolveCalled
    /\ HasStringRefs(arg)
    /\ ResolutionActive
    /\ \E i \in 1..Len(RefsOf(arg)) : Dangling(RefsOf(arg)[i])
    /\ \E i \in 1..Len(RefsOf(arg)) : Malformed(RefsOf(arg)[i])
    /\ out.status = "return"
    /\ out.value.sections = arg.sections

\* C8: within one call each distinct resolvable ref id contributes exactly one
\* appended section, however often it occurs in the ref list: the number of
\* appended sections is the number of distinct resolvable ref ids.
C8_OncePerRefId ==
    (ResolveCalled /\ HasStringRefs(arg) /\ ResolutionActive) =>
        /\ out.status = "return"
        /\ Len(Appended) =
               Cardinality({RefsOf(arg)[i] : i \in 1..Len(RefsOf(arg))}
                           \cap {r \in RefIdPool : Resolvable(r)})
        /\ \A i \in 1..Len(RefsOf(arg)) :
               Resolvable(RefsOf(arg)[i]) =>
                   Cardinality({j \in 1..Len(Appended) :
                                   Appended[j] = EntryOf(RefsOf(arg)[i]).section}) = 1

\* The same resolvable ref id twice in the list, one section appended.
C8_Witness ==
    /\ ResolveCalled
    /\ HasStringRefs(arg)
    /\ ResolutionActive
    /\ \E i, k \in 1..Len(RefsOf(arg)) :
           i # k /\ RefsOf(arg)[i] = RefsOf(arg)[k] /\ Resolvable(RefsOf(arg)[i])
    /\ Len(Appended) = 1

\* The positions of the ref list that hold the first occurrence of a
\* resolvable ref id.
FirstResolvable(refs) ==
    {i \in 1..Len(refs) : Resolvable(refs[i]) /\ \A j \in 1..(i - 1) : refs[j] # refs[i]}

\* The payloads of those positions, in the order of the ref list.
ExpectedAppended(refs) ==
    LET pos == FirstResolvable(refs)
    IN  [k \in 1..Cardinality(pos) |->
            EntryOf(refs[CHOOSE i \in pos : Cardinality({j \in pos : j <= i}) = k]).section]

\* C9: the returned section sequence is the input's section sequence,
\* unchanged, followed by the resolved shared sections in the order of the
\* first occurrence of their ref ids.
C9_PrefixThenRefOrder ==
    (ResolveCalled /\ HasStringRefs(arg) /\ ResolutionActive) =>
        /\ out.status = "return"
        /\ out.value.sections = arg.sections \o ExpectedAppended(RefsOf(arg))

\* Two original sections kept in front of two resolved ones.
C9_Witness ==
    /\ ResolveCalled
    /\ HasStringRefs(arg)
    /\ ResolutionActive
    /\ Len(arg.sections) = 2
    /\ arg.sections[1] # arg.sections[2]
    /\ Len(Appended) = 2
    /\ Appended[1] # Appended[2]

\* C10: resolveSharedSections returns the input page unchanged, whatever its
\* sharedSectionRefs hold, when the enableSharedSections flag is off or the
\* shared-sections collection is empty.
C10_NoOpWhenOff ==
    (ResolveCalled /\ arg # Undefined /\ ~ResolutionActive) => out = Return(arg)

\* The flag is off, the collection and the ref list hold a resolvable id.
C10_Witness ==
    /\ ResolveCalled
    /\ HasStringRefs(arg)
    /\ ~globalAppConfig.featureFlags.enableSharedSections
    /\ \E i \in 1..Len(RefsOf(arg)) : Resolvable(RefsOf(arg)[i])
    /\ out = Return(arg)

\* C11: resolveSharedSections called on a page whose sharedSectionRefs is
\* not an array throws a ValidationError and never returns a page, whatever
\* the configuration.
C11_NonArrayRefsFailFast ==
    (/\ ResolveCalled
     /\ arg # Undefined
     /\ "sharedSectionRefs" \in DOMAIN arg
     /\ ~arg.sharedSectionRefs.isArray) =>
        /\ out.status = "throw"
        /\ out.name = "ValidationError"

(***************************************************************************)
(* Objects. Pages, section arrays, sections and their fields mappings are  *)
(* JavaScript objects that callers and the core hold by reference:         *)
(* heap[a] is the object at reference a. A section object holds the        *)
(* reference of its fields mapping, a page the reference of its sections   *)
(* array, a shared-sections entry and a template the reference of their    *)
(* section; the other attributes are held by value.                        *)
(***************************************************************************)
MaxCalls == 3      \* calls and writes made on the objects in one behaviour

\* A new object: the store after the allocation and the new reference.
Alloc(h, obj) == [heap |-> Append(h, obj), ref |-> Len(h) + 1]

\* A section given by value becomes a fields object and a section object.
StoreSection(h, s) ==
    LET fields == Alloc(h, s.fields)
    IN  Alloc(fields.heap, [s EXCEPT !.fields = fields.ref])

RECURSIVE StoreAll(_, _, _)
StoreAll(h, sections, refs) ==
    IF sections = <<>> THEN [heap |-> h, refs |-> refs]
    ELSE LET stored == StoreSection(h, Head(sections))
         IN  StoreAll(stored.heap, Tail(sections), Append(refs, stored.ref))

\* What a reader of the section at reference a sees.
SectionValue(h, a) == [h[a] EXCEPT !.fields = h[h[a].fields]]

SectionValues(h, refs) == [i \in 1..Len(refs) |-> SectionValue(h, refs[i])]

\* What a reader of the page at reference a sees.
PageValue(h, a) == [h[a] EXCEPT !.sections = SectionValues(h, h[h[a].sections].items)]

\* The shared-sections collection as a reader sees it.
SharedView(h, sharedSections) ==
    [i \in 1..Len(sharedSections) |->
        [sharedSections[i] EXCEPT !.section = SectionValue(h, @)]]

SameArray(h, a) == [heap |-> h, ref |-> a]

\* [...(page.sections ?? [])]: a new array with the same elements.
SpreadArray(h, a) == Alloc(h, [items |-> h[a].items])

\* The ref ids a call record says were appended.
KeptResolvedRefs(calls) ==
    UNION {calls[c].resolvedRefs :
              c \in {x \in DOMAIN calls : calls[x].op = "resolveSharedSections"}}

\* new Set<string>(): every call starts with no ref id resolved.
NewResolvedRefs(calls) == {}

\* The for loop of lines 1062-1085 on the array at reference updatedSections.
RECURSIVE ResolveRefs(_, _, _, _, _, _)
ResolveRefs(h, sharedSections, refs, i, updatedSections, resolvedRefs) ==
    IF i > Len(refs)
    THEN [heap |-> h, outcome |-> Return(updatedSections), resolvedRefs |-> resolvedRefs]
    ELSE IF ~IsString(refs[i])
    THEN [heap |-> h,
          outcome |-> ValidationError("INVALID_REF_ID",
                                      "Invalid shared section reference: " \o refs[i]),
          resolvedRefs |-> resolvedRefs]
    ELSE IF AppendsRef(SharedView(h, sharedSections), refs[i], resolvedRefs)
    THEN ResolveRefs([h EXCEPT ![updatedSections].items =
                         PushSection(@, FindShared(sharedSections, refs[i]).section)],
                     sharedSections, refs, i + 1, updatedSections,
                     resolvedRefs \cup {refs[i]})
    ELSE ResolveRefs(h, sharedSections, refs, i + 1, updatedSections, resolvedRefs)

\* resolveSharedSections on the page object at reference page: the store
\* after the call and the reference returned or the error thrown.
resolveSharedSectionsAt(h, page, calls) ==
    LET sharedSections == sharedSectionsOfConfig
        unchanged == [heap |-> h, resolvedRefs |-> {}]
    IN  IF SharedSectionsOff(sharedSections)
        THEN unchanged @@ [outcome |-> Return(page)]
        ELSE IF ~h[page].sharedSectionRefs.isArray
        THEN unchanged @@ [outcome |-> ValidationError("INVALID_SHARED_REFS",
                                                       "sharedSectionRefs must be an array")]
        ELSE LET updatedSections == SpreadArray(h, h[page].sections)
                 loop == ResolveRefs(updatedSections.heap, sharedSections,
                                     h[page].sharedSectionRefs.items, 1,
                                     updatedSections.ref, NewResolvedRefs(calls))
                 result == Alloc(loop.heap,
                                 [h[page] EXCEPT !.sections = updatedSections.ref])
             IN  IF loop.outcome.status = "throw" THEN loop
                 ELSE [heap |-> result.heap, outcome |-> Return(result.ref),
                       resolvedRefs |-> loop.resolvedRefs]

(***************************************************************************)
(* Shared-section resolution on objects, as a state machine: the page a    *)
(* caller holds is resolved, again and again; between the calls the caller *)
(* writes to the sections of the pages it got back and to the              *)
(* configuration.                                                          *)
(***************************************************************************)
\* The caller's page is the first object of the store, its sections array
\* the second.
InputPage == 1

InputSections == 2

SharedCollections ==
    {<<>>,
     <<[id |-> "promo", section |-> SecPromo], [id |-> "footer", section |-> SecFooter]>>,
     <<[id |-> "promo", section |-> SecStale], [id |-> "footer", section |-> SecFooter]>>}

ObjectPageInputs ==
    {MkPage("city", ss, r, {}) :
        ss \in {<<SecText>>},
        r \in {NonArray, JsArray(<<"promo">>), JsArray(<<"footer", "promo">>),
               JsArray(<<"promo", "promo">>), JsArray(<<"footer", "7">>)}}

ObjectConfig(sharedOn, sharedSections) ==
    MkConfig(TRUE, TRUE, sharedOn,
             [seo |-> [programmaticSEO |-> [enabled |-> TRUE, routeRules |-> <<>>,
                                            sharedSections |-> sharedSections]],
              aiContent |-> Undefined])

InitObjects ==
    \E entries \in SharedCollections, sharedOn \in BOOLEAN, page \in ObjectPageInputs :
        LET own == StoreAll(<<Undefined, Undefined>>, page.sections, <<>>)
            shared == StoreAll(own.heap, [i \in 1..Len(entries) |-> entries[i].section],
                               <<>>)
        IN  /\ heap = [shared.heap EXCEPT ![InputPage] = [page EXCEPT !.sections = InputSections],
                                          ![InputSections] = [items |-> own.refs]]
            /\ globalAppConfig =
                   ObjectConfig(sharedOn,
                                [i \in 1..Len(entries) |->
                                    [entries[i] EXCEPT !.section = shared.refs[i]]])
            /\ _sectionRegistry = EmptyObject
            /\ _pageRegistry = EmptyObject
            /\ _templateRegistry = EmptyObject
            /\ uuid = 0
            /\ seoRuns = NoRuns
            /\ op = "none"
            /\ arg = Undefined
            /\ opts = [resolveShared |-> FALSE]
            /\ out = NoOutcome
            /\ returned = <<>>
            /\ memoryState = [toasts |-> <<>>]
            /\ toastTimeouts = {}

\* The sections of the page a call returned, as its caller reads them.
SectionsReturned(h, outcome) ==
    IF outcome.status = "return" THEN SectionValues(h, h[h[outcome.value].sections].items)
    ELSE <<>>

\* resolveSharedSections(page) on the caller's page.
ResolveObjectCall ==
    LET call == resolveSharedSectionsAt(heap, InputPage, returned)
    IN  /\ Len(returned) < MaxCalls
        /\ op' = "resolveSharedSections"
        /\ arg' = [page |-> InputPage]
        /\ out' = call.outcome
        /\ heap' = call.heap
        /\ returned' =
               Append(returned,
                      [op |-> "resolveSharedSections", arg |-> InputPage,
                       outcome |-> call.outcome, resolvedRefs |-> call.resolvedRefs,
                       input |-> PageValue(heap, InputPage),
                       config |-> globalAppConfig,
                       shared |-> SharedView(heap, sharedSectionsOfConfig),
                       sections |-> SectionsReturned(call.heap, call.outcome)])
        /\ UNCHANGED <<toasts, globalAppConfig, registries, uuid, seoRuns, opts>>

\* The references of the sections the calls returned: those of the pages
\* resolveSharedSections returned, and those instantiate returned.
SectionsHeld ==
    UNION {{heap[heap[returned[c].outcome.value].sections].items[k] :
                k \in 1..Len(heap[heap[returned[c].outcome.value].sections].items)} :
              c \in {x \in DOMAIN returned :
                        /\ returned[x].op = "resolveSharedSections"
                        /\ returned[x].outcome.status = "return"}}
    \cup {returned[c].outcome.value :
              c \in {x \in DOMAIN returned :
                        /\ returned[x].op = "instantiate"
                        /\ returned[x].outcome.status = "return"}}

\* section.id = 'edited', or section.fields.note = {...}, on a section
\* object the caller reached through a returned page. No section object is
\* frozen.
WriteSection(h, section, kind) ==
    IF kind = "attribute"
    THEN [h EXCEPT ![section].id = "edited"]
    ELSE [h EXCEPT ![h[section].fields] =
             Put(@, "note", [id |-> "note", type |-> "text", value |-> "edited"])]

WriteSectionCall(section, kind) ==
    /\ Len(returned) < MaxCalls
    /\ section \in SectionsHeld
    /\ op' = "write"
    /\ arg' = [section |-> section, kind |-> kind]
    /\ out' = Return(Undefined)
    /\ heap' = WriteSection(heap, section, kind)
    /\ returned' = Append(returned, [op |-> "write", arg |-> section])
    /\ UNCHANGED <<toasts, globalAppConfig, registries, uuid, seoRuns, opts>>

\* Object.freeze(validatedConfig) (line 854) makes the properties of the
\* configuration object itself read-only, not those of the objects it holds.
Frozen(path) == Len(path) = 1

\* An assignment to the property at `path` of globalAppConfig. In a module
\* (strict code) an assignment to a read-only property throws a TypeError.
WriteConfig(config, path, value) ==
    IF Frozen(path)
    THEN [config |-> config,
          outcome |-> Throw("TypeError", "Cannot assign to read only property", "")]
    ELSE [config |-> [config EXCEPT ![path[1]][path[2]] = value],
          outcome |-> Return(Undefined)]

ConfigPaths ==
    {<<"featureFlags">>, <<"featureFlags", "enableSharedSections">>,
     <<"advancedConfig", "seo">>}

\* What the caller assigns at each path: the flags with the shared-sections
\* flag inverted, that flag inverted, an seo block with no shared sections.
ValueWritten(config, path) ==
    CASE path = <<"featureFlags">> ->
             [config.featureFlags EXCEPT !.enableSharedSections = ~@]
      [] path = <<"featureFlags", "enableSharedSections">> ->
             ~config.featureFlags.enableSharedSections
      [] path = <<"advancedConfig", "seo">> ->
             [programmaticSEO |-> [enabled |-> TRUE, routeRules |-> <<>>,
                                   sharedSections |-> <<>>]]

WriteConfigCall(path) ==
    LET effect == WriteConfig(globalAppConfig, path, ValueWritten(globalAppConfig, path))
    IN  /\ Len(returned) < MaxCalls
        /\ op' = "writeConfig"
        /\ arg' = [path |-> path]
        /\ out' = effect.outcome
        /\ globalAppConfig' = effect.config
        /\ returned' = Append(returned, [op |-> "writeConfig", arg |-> path])
        /\ UNCHANGED <<toasts, registries, uuid, seoRuns, opts, heap>>

NextObjects ==
    \/ ResolveObjectCall
    \/ \E section \in 1..Len(heap), kind \in {"attribute", "fields"} :
           WriteSectionCall(section, kind)
    \/ \E path \in ConfigPaths : WriteConfigCall(path)

SpecObjects == InitObjects /\ [][NextObjects]_vars

(***************************************************************************)
(* Properties of resolution on objects (checked under SpecObjects).        *)
(***************************************************************************)
\* The step is a call of resolveSharedSections.
ResolveStep == op' = "resolveSharedSections" /\ Len(returned') > Len(returned)

\* The calls of resolveSharedSections made so far.
ResolveCalls == {c \in DOMAIN returned : returned[c].op = "resolveSharedSections"}

\* The call appended at least one shared section.
AppendedSome(call) ==
    /\ call.outcome.status = "return"
    /\ Len(call.sections) > Len(call.input.sections)

\* C12: resolveSharedSections does not mutate its input: every object that
\* existed before the call, the input page and its sections array included,
\* is after the call what it was before, and when sections are appended the
\* page returned is a new object, not the input page.
C12_InputNotMutated ==
    [][ResolveStep =>
           /\ \A a \in 1..Len(heap) : heap'[a] = heap[a]
           /\ PageValue(heap', InputPage) = PageValue(heap, InputPage)
           /\ AppendedSome(returned'[Len(returned')]) => out'.value \notin 1..Len(heap)]_vars

\* A call appended a section; the input page still has its one section.
C12_Witness ==
    /\ op = "resolveSharedSections"
    /\ AppendedSome(returned[Len(returned)])
    /\ out.value # InputPage
    /\ Len(heap[InputSections].items) = 1
    /\ Len(heap[heap[out.value].sections].items) = 3

\* The calls of resolveSharedSections that returned a page.
ResolvedPages == {c \in ResolveCalls : returned[c].outcome.status = "return"}

\* The references of the sections call c appended to the page it returned.
AppendedBy(c) ==
    {heap[heap[returned[c].outcome.value].sections].items[k] :
        k \in (Len(returned[c].input.sections) + 1)..Len(returned[c].sections)}

\* C13: a section appended by resolveSharedSections is a copy: a write to
\* the appended section of one resolved page changes neither the entry of
\* the shared-sections collection nor what the other resolved pages hold.
C13_AppendedSectionIsCopy ==
    [][\A c \in ResolvedPages :
           (/\ op' = "write"
            /\ Len(returned') > Len(returned)
            /\ arg'.section \in AppendedBy(c)) =>
               /\ SharedView(heap', sharedSectionsOfConfig)
                      = SharedView(heap, sharedSectionsOfConfig)
               /\ \A d \in ResolvedPages \ {c} :
                      SectionsReturned(heap', returned[d].outcome)
                          = SectionsReturned(heap, returned[d].outcome)]_vars

\* C14: two calls of resolveSharedSections that found the same page, the
\* same shared-sections collection and the same configuration end alike and
\* return the same section sequence, whatever was called in between.
C14_ResolutionDeterministic ==
    \A i, j \in ResolveCalls :
        (/\ returned[i].input = returned[j].input
         /\ returned[i].shared = returned[j].shared
         /\ returned[i].config = returned[j].config) =>
            /\ returned[i].outcome.status = returned[j].outcome.status
            /\ returned[i].sections = returned[j].sections

\* The page was resolved twice against the same collection and both calls
\* appended two sections.
C14_Witness ==
    \E i, j \in ResolveCalls :
        /\ i < j
        /\ returned[i].input = returned[j].input
        /\ returned[i].shared = returned[j].shared
        /\ returned[i].config = returned[j].config
        /\ AppendedSome(returned[i])
        /\ Len(returned[j].sections) = Len(returned[j].input.sections) + 2

\* C20: after its construction the global configuration is immutable at
\* every depth: no write to a feature flag or to any nested part of it
\* takes effect.
C20_ConfigDeepImmutable ==
    [][globalAppConfig' = globalAppConfig]_vars

(***************************************************************************)
(* Template instantiation. A string that may hold placeholders is a        *)
(* sequence of tokens, each a piece of literal text or one placeholder     *)
(* "${key}"; the string itself is the concatenation of its tokens.         *)
(***************************************************************************)
\* The key the regular expression /\${(\w+)}/g captures in a token, or ""
\* when the token is not a match.
PlaceholderKey(token) ==
    CASE token = "${city}" -> "city"
      [] token = "${service}" -> "service"
      [] OTHER -> ""

IsPlaceholder(token) == PlaceholderKey(token) # ""

\* variables[key] ?? '' (the values the model draws are strings, which
\* String() leaves as they are).
ValueFor(variables, key) == IF key \in DOMAIN variables THEN variables[key] ELSE ""

\* Values that hold a double quote: put unescaped into a JSON string
\* literal they end it early.
JsonUnsafeValues == {"The \"Harbour\" City"}

RECURSIVE Text(_)
Text(tokens) == IF tokens = <<>> THEN "" ELSE Head(tokens) \o Text(Tail(tokens))

\* The replace of lines 1160-1163 on one string of the serialized section.
SubstituteTokens(tokens, variables) ==
    [i \in 1..Len(tokens) |->
        IF IsPlaceholder(tokens[i]) THEN ValueFor(variables, PlaceholderKey(tokens[i]))
        ELSE tokens[i]]

SubstituteField(field, variables) ==
    IF "value" \in DOMAIN field
    THEN [field EXCEPT !.value = SubstituteTokens(@, variables)]
    ELSE field

SubstituteSection(section, variables) ==
    [section EXCEPT !.fields =
        [k \in DOMAIN section.fields |-> SubstituteField(section.fields[k], variables)]]

\* JSON.parse(JSON.stringify(section).replace(...)): the values are put
\* into the serialized text as they are, so a value with a double quote
\* leaves text JSON.parse rejects; otherwise the parse builds new objects.
JsonRoundTrip(h, section, variables) ==
    IF \E k \in DOMAIN h[h[section].fields] :
           LET field == h[h[section].fields][k]
           IN  /\ "value" \in DOMAIN field
               /\ \E i \in 1..Len(field.value) :
                      /\ IsPlaceholder(field.value[i])
                      /\ ValueFor(variables, PlaceholderKey(field.value[i]))
                             \in JsonUnsafeValues
    THEN [heap |-> h, outcome |-> Throw("SyntaxError", "Unexpected token in JSON", "")]
    ELSE LET parsed == StoreSection(h, SubstituteSection(SectionValue(h, section), variables))
         IN  [heap |-> parsed.heap, outcome |-> Return(parsed.ref)]

MergeKeepingFirst(section, generated) ==
    [k \in DOMAIN section \cup DOMAIN generated |->
        IF k \in DOMAIN section THEN section[k] ELSE generated[k]]

\* { ...section, ...aiContent[0] }
Merge(section, generated) ==
    [k \in DOMAIN section \cup DOMAIN generated |->
        IF k \in DOMAIN generated THEN generated[k] ELSE section[k]]

\* templateUtils.get(id)
templateUtils_get(registry, id) ==
    IF Lookup(registry, id) = Undefined
    THEN ValidationError("Template not found", "TEMPLATE_NOT_FOUND")
    ELSE Return(Lookup(registry, id))

\* The variables as the template literal of line 1040 reads them.
AiVariables(variables) ==
    [k \in {"city", "service"} |->
        IF k \in DOMAIN variables THEN variables[k] ELSE "undefined"]

\* The AI step of instantiate (lines 1168-1177) on the section at
\* reference section.
MergeAIContent(h, registry, template, section, variables, ids) ==
    LET aiContent == generateAIContentSections(registry, template.aiPrompt,
                                               AiVariables(variables), randomUUID(ids + 1))
    IN  IF aiContent.status = "throw"
        THEN [heap |-> h, outcome |-> aiContent, ids |-> ids]
        ELSE IF Len(aiContent.value) > 0
        THEN LET generated == StoreSection(h, aiContent.value[1])
                 merged == Alloc(generated.heap, Merge(h[section], generated.heap[generated.ref]))
             IN  [heap |-> merged.heap, outcome |-> Return(merged.ref), ids |-> ids + 1]
        ELSE [heap |-> h, outcome |-> Return(section), ids |-> ids]

\* templateUtils.instantiate(templateId, variables): the store after the
\* call, the reference of the section returned or the error thrown, and the
\* number of identifiers handed out.
templateUtils_instantiate(h, templates, registry, templateId, variables, ids) ==
    LET found == templateUtils_get(templates, templateId)
    IN  IF found.status = "throw" THEN [heap |-> h, outcome |-> found, ids |-> ids]
        ELSE LET template == found.value
                 spread == Alloc(h, h[template.section])
                 substituted ==
                     IF Len(template.variables) > 0
                     THEN JsonRoundTrip(spread.heap, spread.ref, variables)
                     ELSE [heap |-> spread.heap, outcome |-> Return(spread.ref)]
             IN  IF substituted.outcome.status = "throw"
                 THEN [heap |-> substituted.heap, outcome |-> substituted.outcome,
                       ids |-> ids]
                 ELSE IF Truthy(template, "aiPrompt")
                 THEN MergeAIContent(substituted.heap, registry, template,
                                     substituted.outcome.value, variables, ids)
                 ELSE [heap |-> substituted.heap, outcome |-> substituted.outcome,
                       ids |-> ids]

(***************************************************************************)
(* Template instantiation as a state machine: one template is registered;  *)
(* callers instantiate it and write to the sections they got back.         *)
(***************************************************************************)
GreetingSection ==
    [id |-> "sec-greeting", type |-> "hero",
     fields |-> [title |-> [id |-> "title", type |-> "text",
                            value |-> <<"Hello ", "${city}">>]]]

\* The same skeleton with a key of its own, which no generated section has
\* (templateUtils.register stores the template as given).
AnchoredSection == Put(GreetingSection, "anchor", "greeting")

SkeletonPool == {GreetingSection, AnchoredSection}

\* The template, with or without declared variables and AI prompt ("" for
\* none), holding the reference of its skeleton section.
MkTemplate(declared, aiPrompt, section) ==
    LET base == [id |-> "tpl-greeting", name |-> "Greeting", section |-> section,
                 variables |-> IF declared
                               THEN <<[key |-> "city", label |-> "City", type |-> "text"]>>
                               ELSE <<>>,
                 tags |-> <<>>]
    IN  IF aiPrompt = "" THEN base ELSE Put(base, "aiPrompt", aiPrompt)

TemplateIds == {"tpl-greeting", "tpl-unknown"}

VariablesPool == {EmptyObject, [city |-> "Sydney"], [city |-> "The \"Harbour\" City"]}

TextItem == [label |-> "Text", icon |-> "type", description |-> "A block of text"]

InitTemplates ==
    \E declared \in BOOLEAN, aiPrompt \in {"", "Write an intro"}, enabled \in BOOLEAN,
       registry \in {EmptyObject, [text |-> TextItem]}, section \in SkeletonPool :
        LET skeleton == StoreSection(<<>>, section)
        IN  /\ heap = skeleton.heap
            /\ _templateRegistry =
                   [id \in {"tpl-greeting"} |-> MkTemplate(declared, aiPrompt, skeleton.ref)]
            /\ _sectionRegistry = registry
            /\ globalAppConfig =
                   MkConfig(TRUE, TRUE, TRUE,
                            [seo |-> Undefined, aiContent |-> [enabled |-> enabled]])
            /\ _pageRegistry = EmptyObject
            /\ uuid = 0
            /\ seoRuns = NoRuns
            /\ op = "none"
            /\ arg = Undefined
            /\ opts = [resolveShared |-> FALSE]
            /\ out = NoOutcome
            /\ returned = <<>>
            /\ memoryState = [toasts |-> <<>>]
            /\ toastTimeouts = {}

\* What a reader of templateUtils.get(id) sees, the skeleton included.
TemplateValue(h, template) == [template EXCEPT !.section = SectionValue(h, @)]

TemplatesValue(h, templates) ==
    [id \in DOMAIN templates |-> TemplateValue(h, templates[id])]

InstantiateCall(templateId, variables) ==
    LET call == templateUtils_instantiate(heap, _templateRegistry, _sectionRegistry,
                                          templateId, variables, uuid)
    IN  /\ Len(returned) < MaxCalls
        /\ op' = "instantiate"
        /\ arg' = [templateId |-> templateId, variables |-> variables]
        /\ out' = call.outcome
        /\ heap' = call.heap
        /\ uuid' = call.ids
        /\ returned' =
               Append(returned,
                      [op |-> "instantiate", arg |-> templateId, variables |-> variables,
                       outcome |-> call.outcome, ids |-> uuid,
                       template |-> IF templateId \in DOMAIN _templateRegistry
                                    THEN TemplateValue(heap, _templateRegistry[templateId])
                                    ELSE Undefined,
                       section |-> IF call.outcome.status = "return"
                                   THEN SectionValue(call.heap, call.outcome.value)
                                   ELSE Undefined])
        /\ UNCHANGED <<toasts, globalAppConfig, registries, seoRuns, opts>>

NextTemplates ==
    \/ \E templateId \in TemplateIds, variables \in VariablesPool :
           InstantiateCall(templateId, variables)
    \/ \E section \in 1..Len(heap), kind \in {"attribute", "fields"} :
           WriteSectionCall(section, kind)

SpecTemplates == InitTemplates /\ [][NextTemplates]_vars

(***************************************************************************)
(* Properties of template instantiation (checked under SpecTemplates).     *)
(***************************************************************************)
\* The instantiations of a registered template made so far.
InstantiateCalls ==
    {c \in DOMAIN returned :
        returned[c].op = "instantiate" /\ returned[c].template # Undefined}

\* The substitution itself failed.
SubstitutionFailed(call) ==
    call.outcome.status = "throw" /\ call.outcome.name = "SyntaxError"

\* C15: instantiating a registered template whose skeleton holds the field
\* value "Hello ${city}" never fails in the substitution and returns a
\* section whose field reads "Hello " followed by the city given ("Hello "
\* when none is given), with no placeholder left in it, for every template
\* and every variable mapping.
C15_PlaceholdersSubstituted ==
    \A c \in InstantiateCalls :
        /\ ~SubstitutionFailed(returned[c])
        /\ (returned[c].outcome.status = "return"
            /\ "title" \in DOMAIN returned[c].section.fields) =>
               LET value == returned[c].section.fields.title.value
               IN  /\ \A i \in 1..Len(value) : ~IsPlaceholder(value[i])
                   /\ Text(value) = "Hello " \o ValueFor(returned[c].variables, "city")

\* C16: the registered template, skeleton and fields mapping included, reads
\* the same before and after every instantiation and every write to a
\* section that instantiate returned.
C16_TemplateUntouched ==
    [][TemplatesValue(heap', _templateRegistry') = TemplatesValue(heap, _templateRegistry)]_vars

\* The section of the template after the substitution step of call.
SubstitutedSection(call) ==
    IF Len(call.template.variables) > 0
    THEN SubstituteSection(call.template.section, call.variables)
    ELSE call.template.section

\* What AI generation yields for call.
GeneratedFor(call) ==
    generateAIContentSections(_sectionRegistry, call.template.aiPrompt,
                              AiVariables(call.variables), randomUUID(call.ids + 1))

\* C17: when the template declares an AI prompt and generation yields a
\* section, every key of the generated section carries the generated value
\* in the section returned and every other key the substituted template's
\* value; when generation yields no section, the substituted section is
\* returned as it is, without error.
C17_GeneratedTakesPrecedence ==
    \A c \in InstantiateCalls :
        LET call == returned[c]
        IN  (/\ Truthy(call.template, "aiPrompt")
             /\ ~SubstitutionFailed(call)
             /\ GeneratedFor(call).status = "return") =>
                LET aiContent == GeneratedFor(call).value
                    section == SubstitutedSection(call)
                IN  /\ call.outcome.status = "return"
                    /\ Len(aiContent) = 0 => call.section = section
                    /\ Len(aiContent) > 0 =>
                           /\ DOMAIN call.section = DOMAIN section \cup DOMAIN aiContent[1]
                           /\ \A k \in DOMAIN aiContent[1] : call.section[k] = aiContent[1][k]
                           /\ \A k \in DOMAIN section \ DOMAIN aiContent[1] :
                                  call.section[k] = section[k]

\* A template with a key of its own was merged with a generated section.
C17_Witness ==
    \E c \in InstantiateCalls :
        /\ Truthy(returned[c].template, "aiPrompt")
        /\ returned[c].outcome.status = "return"
        /\ Len(GeneratedFor(returned[c]).value) > 0
        /\ returned[c].section.type = "text"
        /\ "anchor" \in DOMAIN returned[c].section
        /\ "intro" \in DOMAIN returned[c].section.fields

(***************************************************************************)
(* The builder and the validation of a configuration, as a state machine:  *)
(* callers create sections and pages and validate configurations.          *)
(***************************************************************************)
\* The keys of featureFlagsSchema (strict; each defaults to false).
FeatureFlagKeys ==
    {"enablePersonalization", "enableABTesting", "enableVersioning", "enableDrafts",
     "enableTemplates", "enableAIContent", "enableMarketIntelligence", "enableAdvancedSEO",
     "enableCompetitorCrawling", "enableVectorSEO", "enableLeadFunnels",
     "enableMultiRegionDeploy", "enableMicrofrontends", "enableEmailAutomation",
     "enableN8nWorkflows", "enableProgrammaticSEO", "enableContentClustering",
     "enableSharedSections", "enableRoutePersonalization", "enableLocalizationSEO",
     "enableAdvancedCompetitorAnalysis", "enableRecentlyCleaned", "enableProviderFlow"}

\* The keys of advancedConfigSchema (strict).
AdvancedConfigKeys == {"seo", "aiContent", "competitorAnalysis"}

\* What featureFlagsSchema parses the flags to: absent flags are false.
featureFlagsData(flags) ==
    [k \in FeatureFlagKeys |-> IF k \in DOMAIN flags THEN flags[k] ELSE FALSE]

\* The object schema of appConfigSchema, before its refinement. The blocks
\* of the advanced configurations the model draws are well formed, so only
\* the keys are checked.
appConfigObjectOk(data) ==
    /\ DOMAIN data.featureFlags \subseteq FeatureFlagKeys
    /\ data.advancedConfig # Undefined =>
           DOMAIN data.advancedConfig \subseteq AdvancedConfigKeys

appConfigSchemaData(data) ==
    [featureFlags |-> featureFlagsData(data.featureFlags),
     advancedConfig |-> data.advancedConfig]

\* appConfigSchema.safeParse(data).success
appConfigSchemaOk(data) ==
    appConfigObjectOk(data) /\ appConfigRefinement(appConfigSchemaData(data))

\* Feature flags as a caller writes them: any of the two flags of the
\* refinement given or left out, and a key the schema does not know.
FlagInputs ==
    UNION {[keys -> BOOLEAN] : keys \in SUBSET {"enableAdvancedSEO", "enableAIContent"}}
    \cup {[enableAdvancedSEO |-> TRUE, enableTelemetry |-> TRUE]}

AdvancedInputs ==
    {Undefined, EmptyObject,
     [aiContent |-> [enabled |-> TRUE, provider |-> "openai"]],
     [telemetry |-> [enabled |-> TRUE]]}

ConfigInputs ==
    {[featureFlags |-> flags, advancedConfig |-> advanced] :
        flags \in FlagInputs, advanced \in AdvancedInputs}

BuilderSectionTypes == {"text", "hero"}

BuilderPageTypes == {"city", "microsite"}

BuilderSlugs == {"/sydney/house-cleaning", " "}

InitBuilder ==
    /\ globalAppConfig \in {MkConfig(TRUE, TRUE, TRUE, Undefined)}
    /\ _sectionRegistry \in {EmptyObject, [text |-> TextItem]}
    /\ _pageRegistry = EmptyObject
    /\ _templateRegistry = EmptyObject
    /\ uuid = 0
    /\ seoRuns = NoRuns
    /\ op = "none"
    /\ arg = Undefined
    /\ opts = [resolveShared |-> FALSE]
    /\ out = NoOutcome
    /\ heap = <<>>
    /\ returned = <<>>
    /\ memoryState = [toasts |-> <<>>]
    /\ toastTimeouts = {}

\* The call, recorded with its outcome; a value returned took an identifier.
BuilderCall(name, argument, outcome) ==
    /\ Len(returned) < MaxCalls
    /\ op' = name
    /\ arg' = argument
    /\ out' = outcome
    /\ uuid' = IF outcome.status = "return" THEN uuid + 1 ELSE uuid
    /\ returned' = Append(returned, [op |-> name, arg |-> argument, outcome |-> outcome])
    /\ UNCHANGED <<toasts, globalAppConfig, registries, seoRuns, opts, heap>>

CreateSectionCall(type) ==
    BuilderCall("createSection", [type |-> type],
                createSection(_sectionRegistry, type, EmptyObject, randomUUID(uuid + 1)))

CreatePageCall(type, slug) ==
    BuilderCall("createPage", [type |-> type, slug |-> slug],
                createPage(type, slug, randomUUID(uuid + 1)))

\* validationUtils.validateSafely(appConfigSchema, data, 'ERR_CONFIG')
ValidateConfigCall(data) ==
    /\ op' = "validateConfig"
    /\ arg' = data
    /\ out' = validateSafely(appConfigSchemaOk(data), appConfigSchemaData(data), "ERR_CONFIG")
    /\ UNCHANGED <<toasts, globalAppConfig, registries, uuid, seoRuns, opts, objects>>

NextBuilder ==
    \/ \E type \in BuilderSectionTypes : CreateSectionCall(type)
    \/ \E type \in BuilderPageTypes, slug \in BuilderSlugs : CreatePageCall(type, slug)
    \/ \E data \in ConfigInputs : ValidateConfigCall(data)

SpecBuilder == InitBuilder /\ [][NextBuilder]_vars

(***************************************************************************)
(* Properties of the builder and of the validation of a configuration      *)
(* (checked under SpecBuilder).                                            *)
(***************************************************************************)
\* C18: createSection with a type that is not in the section-type registry
\* throws a generic Error saying the type was not found, createPage with a
\* type outside the page-type enumeration throws a ValidationError with the
\* code INVALID_PAGE_TYPE; neither returns a value, neither changes a
\* registry.
C18_BuilderRefusals ==
    [][/\ (op' = "createSection" /\ arg'.type \notin DOMAIN _sectionRegistry) =>
              /\ out'.status = "throw"
              /\ out'.name = "Error"
              /\ out'.message
                     = "Cannot create section: type " \o arg'.type \o " not found in registry"
              /\ UNCHANGED registries
       /\ (op' = "createPage" /\ arg'.type \notin pageTypeEnum) =>
              /\ out'.status = "throw"
              /\ out'.name = "ValidationError"
              /\ out'.code = "INVALID_PAGE_TYPE"
              /\ UNCHANGED registries]_vars

\* Both refusals happened: a section of an unregistered type while another
\* type is registered, and a page of a type outside the enumeration.
C18_Witness ==
    /\ _sectionRegistry # EmptyObject
    /\ \E c \in DOMAIN returned :
           /\ returned[c].op = "createSection"
           /\ returned[c].arg.type = "hero"
           /\ returned[c].outcome.name = "Error"
    /\ op = "createPage"
    /\ arg.type = "microsite"
    /\ out.code = "INVALID_PAGE_TYPE"

\* The two flags of the refinement as the schema reads them.
FlagsRead(data) == featureFlagsData(data.featureFlags)

\* C19: validating an AppConfig fails whenever advancedConfig is present
\* while enableAdvancedSEO and enableAIContent are both false (or left out);
\* a well-formed config with either flag true passes, and so does one
\* without advancedConfig, whatever the flags.
C19_AdvancedConfigNeedsFlag ==
    op = "validateConfig" =>
        /\ (/\ arg.advancedConfig # Undefined
            /\ ~FlagsRead(arg).enableAdvancedSEO
            /\ ~FlagsRead(arg).enableAIContent) => out.status = "throw"
        /\ (/\ appConfigObjectOk(arg)
            /\ \/ arg.advancedConfig = Undefined
               \/ FlagsRead(arg).enableAdvancedSEO
               \/ FlagsRead(arg).enableAIContent) =>
               /\ out.status = "return"
               /\ out.value.advancedConfig = arg.advancedConfig

\* A configuration with an AI block and no flag given was rejected.
C19_Witness ==
    /\ op = "validateConfig"
    /\ arg.advancedConfig # Undefined
    /\ "aiContent" \in DOMAIN arg.advancedConfig
    /\ DOMAIN arg.featureFlags = {}
    /\ out.status = "throw"
    /\ out.code = "ERR_CONFIG"

(***************************************************************************)
(* Properties of the instructions the generator uses (checked under Spec). *)
(***************************************************************************)
\* The instruction string one run shares: that of the first rule carrying
\* any, "" when no rule does.
SharedInstructions == extractProgrammaticSEODetails.aiInstructions

\* C25: during one applyProgrammaticSEO run every generated page uses the
\* shared instruction string, the aiInstructions of the first route rule
\* that carries instructions, whichever rule generates the page: when AI
\* content is enabled and some rule carries instructions, every page a run
\* has registered holds the section generated for its slug, also a page of
\* a locations rule that has no aiInstructions of its own.
C25_SharedInstructionsUsed ==
    \A i \in DOMAIN seoRuns : \A n \in DOMAIN seoRuns[i].registered :
        LET page == _pageRegistry[seoRuns[i].registered[n]]
        IN  (/\ globalAppConfig.featureFlags.enableAIContent
             /\ aiContentEnabled
             /\ SharedInstructions # "") =>
                /\ Len(page.sections) = 1
                /\ page.sections[1].type = "text"
                /\ "intro" \in DOMAIN page.sections[1].fields

(***************************************************************************)
(* Properties of the errors of resolution (checked under SpecPipeline).    *)
(***************************************************************************)
\* The identifier the resolution's error is to carry for the argument arg.
ResolutionErrorCode ==
    IF arg = Undefined THEN "PAGE_REQUIRED"
    ELSE IF "sharedSectionRefs" \notin DOMAIN arg \/ ~arg.sharedSectionRefs.isArray
    THEN "INVALID_SHARED_REFS"
    ELSE "INVALID_REF_ID"

\* C27: every ValidationError raised by resolveSharedSections carries a
\* fixed machine-readable identifier in its code field, which does not
\* depend on the offending input: PAGE_REQUIRED for a missing page,
\* INVALID_SHARED_REFS for a ref list that is not an array, INVALID_REF_ID
\* for a ref id that is not a string; the text for a reader is in the
\* message field, not in code.
C27_StableErrorCodes ==
    (ResolveCalled /\ out.status = "throw") =>
        /\ out.name = "ValidationError"
        /\ out.code = ResolutionErrorCode
        /\ out.message # ResolutionErrorCode

(***************************************************************************)
(* The registries as their callers see them: the reads, and the            *)
(* collections the list operations hand out, which a caller may write to.  *)
(***************************************************************************)
\* sectionRegistryUtils.get(type)
sectionRegistryUtils_get(registry, type) ==
    IF Lookup(registry, type) = Undefined
    THEN Error("Section type " \o type \o " not found")
    ELSE Return(Lookup(registry, type))

\* A reference to the module-level object _sectionRegistry, and one to an
\* object of the store.
SectionRegistryObject == [object |-> "_sectionRegistry", at |-> 0]

StoreObject(a) == [object |-> "store", at |-> a]

\* sectionRegistryUtils.getAll(): the registry object itself.
sectionRegistryUtils_getAll == Return(SectionRegistryObject)

\* Object.values(registry) as a sequence; the order of the keys is left
\* open, no property reads it.
RECURSIVE ValuesOf(_)
ValuesOf(registry) ==
    IF DOMAIN registry = {} THEN <<>>
    ELSE LET k == CHOOSE key \in DOMAIN registry : TRUE
         IN  <<registry[k]>> \o ValuesOf([key \in DOMAIN registry \ {k} |-> registry[key]])

\* listAllPages() and templateUtils.list(): a new array of the entries.
NewArrayOfValues(h, registry) ==
    LET array == Alloc(h, [items |-> ValuesOf(registry)])
    IN  [heap |-> array.heap, outcome |-> Return(StoreObject(array.ref))]

\* delete obj[k]
Remove(obj, k) == [key \in DOMAIN obj \ {k} |-> obj[key]]

\* array.splice(i, 1)
Splice(items, i) == [n \in 1..(Len(items) - 1) |-> IF n < i THEN items[n] ELSE items[n + 1]]

\* What a caller puts into a collection it was handed.
GhostKey == "ghost"

GhostEntry == [label |-> "Ghost", icon |-> "ghost", description |-> "Never registered"]

\* A caller's write to an object with string keys: kind "add" sets the key
\* GhostKey, "replace" sets the key k, "delete" deletes the key k.
WriteObject(obj, kind, k) ==
    CASE kind = "add" -> Put(obj, GhostKey, GhostEntry)
      [] kind = "replace" -> Put(obj, k, GhostEntry)
      [] kind = "delete" -> Remove(obj, k)

\* A caller's write to an array: push, array[i] = entry, splice(i, 1).
WriteArray(array, kind, i) ==
    CASE kind = "add" -> [array EXCEPT !.items = Append(@, GhostEntry)]
      [] kind = "replace" -> [array EXCEPT !.items[i] = GhostEntry]
      [] kind = "delete" -> [array EXCEPT !.items = Splice(@, i)]

\* The keys or indexes of the collection behind a reference.
EntriesOf(h, sections, ref) ==
    IF ref = SectionRegistryObject THEN DOMAIN sections ELSE DOMAIN h[ref.at].items

\* The write lands in the object the reference denotes.
WriteCollection(h, sections, ref, kind, k) ==
    IF ref = SectionRegistryObject
    THEN [heap |-> h, sections |-> WriteObject(sections, kind, k)]
    ELSE [heap |-> [h EXCEPT ![ref.at] = WriteArray(@, kind, k)], sections |-> sections]

(***************************************************************************)
(* The registry layer as a state machine: callers register, look up and    *)
(* list entries, build sections and pages, validate and resolve a page,    *)
(* instantiate a template, run the generator, and write to the collections *)
(* the list operations handed them. The host makes one call at a time.     *)
(***************************************************************************)
\* A configuration under which the generator runs without AI content, so
\* that a run has no await and ends within its call.
RegistryConfig ==
    MkConfig(TRUE, FALSE, TRUE,
             [seo |-> [programmaticSEO |->
                           [enabled |-> TRUE, routeRules |-> <<LocationsRule>>,
                            sharedSections |-> <<[id |-> "promo", section |-> SecPromo]>>]],
              aiContent |-> Undefined])

\* "banner" is a type string outside the catalog of section types.
RegistrySectionTypes == {"text", "banner"}

\* The store holds the skeleton section of the templates on offer.
RegistrySkeleton == StoreSection(<<>>, GreetingSection)

RegistryTemplates ==
    {[MkTemplate(FALSE, "", RegistrySkeleton.ref) EXCEPT !.name = name] :
        name \in {"Greeting", "Greeting, wide"}}

RegistryPage == MkPage("city", <<SecText>>, JsArray(<<"promo">>), {})

InitRegistry ==
    /\ globalAppConfig = RegistryConfig
    /\ _sectionRegistry = EmptyObject
    /\ _pageRegistry = EmptyObject
    /\ _templateRegistry = EmptyObject
    /\ uuid = 0
    /\ seoRuns = NoRuns
    /\ op = "none"
    /\ arg = Undefined
    /\ opts = [resolveShared |-> FALSE]
    /\ out = NoOutcome
    /\ heap = RegistrySkeleton.heap
    /\ returned = <<>>
    /\ memoryState = [toasts |-> <<>>]
    /\ toastTimeouts = {}

\* A call is made and recorded with its outcome.
Called(name, argument, outcome) ==
    /\ Len(returned) < MaxCalls
    /\ op' = name
    /\ arg' = argument
    /\ out' = outcome
    /\ returned' = Append(returned, [op |-> name, arg |-> argument, outcome |-> outcome])
    /\ UNCHANGED <<toasts, globalAppConfig, seoRuns, opts>>

\* A call that reads and assigns nothing.
ReadCall(name, argument, outcome) ==
    /\ Called(name, argument, outcome)
    /\ UNCHANGED <<registries, uuid, heap>>

RegistryRegisterSectionCall(type, item) ==
    LET effect == sectionRegistryUtils_register(_sectionRegistry, type, item)
    IN  /\ Called("sectionRegistryUtils.register", [type |-> type, item |-> item],
                  effect.outcome)
        /\ _sectionRegistry' = effect.registry
        /\ UNCHANGED <<_pageRegistry, _templateRegistry, uuid, heap>>

RegistryRegisterPageCall(page) ==
    LET effect == registerPage(_pageRegistry, page)
    IN  /\ Called("registerPage", page, effect.outcome)
        /\ _pageRegistry' = effect.registry
        /\ UNCHANGED <<_sectionRegistry, _templateRegistry, uuid, heap>>

RegistryRegisterTemplateCall(template) ==
    LET effect == templateUtils_register(_templateRegistry, template)
    IN  /\ Called("templateUtils.register", template, effect.outcome)
        /\ _templateRegistry' = effect.registry
        /\ UNCHANGED <<_sectionRegistry, _pageRegistry, uuid, heap>>

GetSectionCall(type) ==
    ReadCall("sectionRegistryUtils.get", [type |-> type],
             sectionRegistryUtils_get(_sectionRegistry, type))

HasSectionCall(type) ==
    ReadCall("sectionRegistryUtils.has", [type |-> type],
             Return(sectionRegistryUtils_has(_sectionRegistry, type)))

GetAllCall == ReadCall("sectionRegistryUtils.getAll", Undefined, sectionRegistryUtils_getAll)

GetPageBySlugCall(slug) ==
    ReadCall("getPageBySlug", [slug |-> slug], Return(getPageBySlug(_pageRegistry, slug)))

\* A list call: the array it returns is a new object of the store.
ListCall(name, registry) ==
    LET listed == NewArrayOfValues(heap, registry)
    IN  /\ Called(name, Undefined, listed.outcome)
        /\ heap' = listed.heap
        /\ UNCHANGED <<registries, uuid>>

ListAllPagesCall == ListCall("listAllPages", _pageRegistry)

ListTemplatesCall == ListCall("templateUtils.list", _templateRegistry)

GetTemplateCall(id) ==
    ReadCall("templateUtils.get", [id |-> id], templateUtils_get(_templateRegistry, id))

RegistryInstantiateCall(templateId) ==
    LET call == templateUtils_instantiate(heap, _templateRegistry, _sectionRegistry,
                                          templateId, EmptyObject, uuid)
    IN  /\ Called("templateUtils.instantiate", [id |-> templateId], call.outcome)
        /\ heap' = call.heap
        /\ uuid' = call.ids
        /\ UNCHANGED registries

\* A builder call; a value returned took an identifier.
RegistryBuilderCall(name, argument, outcome) ==
    /\ Called(name, argument, outcome)
    /\ uuid' = IF outcome.status = "return" THEN uuid + 1 ELSE uuid
    /\ UNCHANGED <<registries, heap>>

RegistryCreateSectionCall(type) ==
    RegistryBuilderCall("createSection", [type |-> type],
                        createSection(_sectionRegistry, type, EmptyObject,
                                      randomUUID(uuid + 1)))

RegistryCreatePageCall(type, slug) ==
    RegistryBuilderCall("createPage", [type |-> type, slug |-> slug],
                        createPage(type, slug, randomUUID(uuid + 1)))

RegistryValidatePageCall(page) == ReadCall("validatePage", page, validatePage(page, opts))

RegistryResolveCall(page) ==
    ReadCall("resolveSharedSections", page, resolveSharedSections(page))

\* applyProgrammaticSEO() under RegistryConfig: the run meets no await.
RegistrySeoCall ==
    LET next == applyProgrammaticSEO(IdleRun, _pageRegistry, uuid)
    IN  /\ next.run.pc = "done"
        /\ Called("applyProgrammaticSEO", Undefined, next.run.outcome)
        /\ _pageRegistry' = next.pages
        /\ uuid' = next.ids
        /\ UNCHANGED <<_sectionRegistry, _templateRegistry, heap>>

CollectionOperations == {"sectionRegistryUtils.getAll", "listAllPages", "templateUtils.list"}

\* The caller writes to the collection the call before handed it.
WriteCollectionCall(kind, k) ==
    LET written == WriteCollection(heap, _sectionRegistry, out.value, kind, k)
    IN  /\ op \in CollectionOperations
        /\ out.status = "return"
        /\ Called("write", [collection |-> out.value, kind |-> kind], Return(Undefined))
        /\ heap' = written.heap
        /\ _sectionRegistry' = written.sections
        /\ UNCHANGED <<_pageRegistry, _templateRegistry, uuid>>

NextRegistry ==
    \/ \E type \in RegistrySectionTypes, item \in RegistryItemPool :
           RegistryRegisterSectionCall(type, item)
    \/ \E page \in CallerPagePool : RegistryRegisterPageCall(page)
    \/ \E template \in RegistryTemplates : RegistryRegisterTemplateCall(template)
    \/ \E type \in {"text", GhostKey} : GetSectionCall(type)
    \/ \E type \in {"text", GhostKey} : HasSectionCall(type)
    \/ GetAllCall
    \/ GetPageBySlugCall(SlugOf("sydney", "house-cleaning"))
    \/ ListAllPagesCall
    \/ ListTemplatesCall
    \/ GetTemplateCall("tpl-greeting")
    \/ RegistryInstantiateCall("tpl-greeting")
    \/ \E type \in RegistrySectionTypes : RegistryCreateSectionCall(type)
    \/ RegistryCreatePageCall("city", SlugOf("sydney", "end-of-lease"))
    \/ RegistryValidatePageCall(RegistryPage)
    \/ RegistryResolveCall(RegistryPage)
    \/ RegistrySeoCall
    \/ WriteCollectionCall("add", GhostKey)
    \/ \E kind \in {"replace", "delete"} :
           \E k \in IF op \in CollectionOperations /\ out.status = "return"
                    THEN EntriesOf(heap, _sectionRegistry, out.value) ELSE {} :
               WriteCollectionCall(kind, k)

SpecRegistry == InitRegistry /\ [][NextRegistry]_vars

(***************************************************************************)
(* Properties of the registry layer (checked under SpecRegistry).          *)
(***************************************************************************)
\* C21: looking up an absent key fails with a "not found" error in every
\* registry and never returns undefined or null in place of the failure:
\* the section-type registry's get, the template registry's get and
\* instantiate (ValidationError, code TEMPLATE_NOT_FOUND), and the page
\* registry's lookup by slug.
C21_AbsentKeyFails ==
    /\ (op = "sectionRegistryUtils.get" /\ arg.type \notin DOMAIN _sectionRegistry) =>
           /\ out.status = "throw"
           /\ out.message = "Section type " \o arg.type \o " not found"
    /\ (/\ op \in {"templateUtils.get", "templateUtils.instantiate"}
        /\ arg.id \notin DOMAIN _templateRegistry) =>
           /\ out.status = "throw"
           /\ out.name = "ValidationError"
           /\ out.code = "TEMPLATE_NOT_FOUND"
    /\ (op = "getPageBySlug" /\ arg.slug \notin DOMAIN _pageRegistry) =>
           out.status = "throw"

\* The keys a caller may ask a registry for: those it holds before or
\* after a step, and the key the caller made up.
KeysAsked(registry, after) == DOMAIN registry \cup DOMAIN after \cup {GhostKey}

\* C22: adding, deleting or replacing entries in the collection returned
\* by sectionRegistryUtils.getAll(), listAllPages() or templateUtils.list()
\* never changes the registry: afterwards has, get and getPageBySlug answer
\* exactly as before, and a key the caller inserted into the collection is
\* not treated as registered.
C22_ReturnedCollectionsDetached ==
    [][op' = "write" =>
          /\ \A type \in KeysAsked(_sectionRegistry, _sectionRegistry') :
                 /\ sectionRegistryUtils_has(_sectionRegistry', type)
                        = sectionRegistryUtils_has(_sectionRegistry, type)
                 /\ sectionRegistryUtils_get(_sectionRegistry', type)
                        = sectionRegistryUtils_get(_sectionRegistry, type)
          /\ \A slug \in KeysAsked(_pageRegistry, _pageRegistry') :
                 getPageBySlug(_pageRegistry', slug) = getPageBySlug(_pageRegistry, slug)
          /\ \A id \in KeysAsked(_templateRegistry, _templateRegistry') :
                 templateUtils_get(_templateRegistry', id)
                     = templateUtils_get(_templateRegistry, id)]_vars

\* The registry after a step holds every key it held, bound as it was.
Grown(registry, after) ==
    \A k \in DOMAIN registry : k \in DOMAIN after /\ after[k] = registry[k]

\* C23: registries only grow. Once a register call for a key has succeeded,
\* the key stays present and bound to the entry registered first through
\* every later register, get, has, list, createSection, createPage,
\* validatePage, resolveSharedSections, instantiate and applyProgrammaticSEO
\* call: no operation deletes or replaces a registered page, section type
\* or template.
C23_RegistriesOnlyGrow ==
    [][op' # "write" =>
          /\ Grown(_sectionRegistry, _sectionRegistry')
          /\ Grown(_pageRegistry, _pageRegistry')
          /\ Grown(_templateRegistry, _templateRegistry')]_vars

\* A page and a section type were registered, a second entry for the
\* section type was refused, the generator then filled the page registry,
\* and both first entries are still the ones bound.
C23_Witness ==
    /\ Len(returned) = 3
    /\ returned[1].op = "registerPage"
    /\ returned[1].outcome.status = "return"
    /\ returned[2].op = "applyProgrammaticSEO"
    /\ returned[2].outcome.status = "return"
    /\ returned[3].op = "registerPage"
    /\ returned[3].arg # returned[1].arg
    /\ returned[3].outcome.status = "throw"
    /\ Cardinality(DOMAIN _pageRegistry) = PairsPerRule
    /\ _pageRegistry[returned[1].arg.slug] = returned[1].arg

\* C29: every section that createSection returns satisfies the Section
\* schema, for every state of the section-type registry: a type the
\* registry gate accepts is one of the fixed catalog of section types.
C29_CreatedSectionIsValid ==
    (op = "createSection" /\ out.status = "return") =>
        /\ out.value.type \in sectionTypeEnum
        /\ sectionSchemaOk(out.value)

(***************************************************************************)
(* Overlapping runs of the generator: the host does not serialize its      *)
(* calls, so applyProgrammaticSEO is called again while earlier runs wait  *)
(* at the await of line 1016, and the runs resume in any order.            *)
(***************************************************************************)
OverlapConfigs ==
    {MkConfig(TRUE, TRUE, TRUE,
              [seo |-> MkProgrammaticSEO(TRUE, rules), aiContent |-> [enabled |-> TRUE]]) :
        rules \in SeqsUpTo(RulePool, MaxRules) \ {<<>>}}

InitOverlap ==
    /\ globalAppConfig \in OverlapConfigs
    /\ _sectionRegistry \in {EmptyObject, [text |-> TextItem]}
    /\ _pageRegistry = EmptyObject
    /\ _templateRegistry = EmptyObject
    /\ uuid = 0
    /\ seoRuns = [i \in 1..MaxRuns |-> IdleRun]
    /\ op = "none"
    /\ arg = Undefined
    /\ opts = [resolveShared |-> FALSE]
    /\ out = NoOutcome
    /\ heap = <<>>
    /\ returned = <<>>
    /\ memoryState = [toasts |-> <<>>]
    /\ toastTimeouts = {}

\* The i-th call of applyProgrammaticSEO, made whether or not the calls
\* before it have settled.
OverlappingSEOCall(i) ==
    /\ seoRuns[i].pc = "idle"
    /\ \A j \in 1..(i - 1) : seoRuns[j].pc # "idle"
    /\ SeoStep(i, applyProgrammaticSEO(seoRuns[i], _pageRegistry, uuid))

NextOverlap ==
    \/ \E i \in 1..MaxRuns : OverlappingSEOCall(i)
    \/ \E i \in 1..MaxRuns : ApplyProgrammaticSEOResume(i)

SpecOverlap == InitOverlap /\ [][NextOverlap]_vars

(***************************************************************************)
(* Properties of overlapping runs (checked under SpecOverlap).             *)
(***************************************************************************)
\* The slugs the runs registered, run after run.
RECURSIVE RegisteredByRuns(_)
RegisteredByRuns(i) ==
    IF i = 0 THEN <<>> ELSE RegisteredByRuns(i - 1) \o seoRuns[i].registered

\* C28: two invocations of applyProgrammaticSEO that overlap, their steps
\* interleaving at each await of AI content generation, both complete
\* without a "slug already registered" error and together register exactly
\* one page per slug: no run ends with the error of registerPage, and no
\* slug is registered by two runs.
C28_OverlappingRunsComplete ==
    /\ \A i \in DOMAIN seoRuns :
           (seoRuns[i].pc = "done" /\ "text" \in DOMAIN _sectionRegistry) =>
               seoRuns[i].outcome.status = "return"
    /\ \A m, n \in DOMAIN RegisteredByRuns(MaxRuns) :
           m # n => RegisteredByRuns(MaxRuns)[m] # RegisteredByRuns(MaxRuns)[n]

(***************************************************************************)
(* Template schema.                                                        *)
(***************************************************************************)
\* The keys of appConfigSchema's object, which is not strict: a key outside
\* them is dropped by the parse (appConfigSchemaData keeps none).
AppConfigKeys == {"featureFlags", "theme", "advancedConfig"}

\* The keys of templateSchema (strict).
TemplateKeys ==
    {"id", "name", "description", "section", "variables", "aiPrompt", "category", "tags"}

\* The keys of an entry of `variables`, whose object is not strict.
TemplateVariableKeys == {"key", "label", "description", "type", "options", "defaultValue"}

TemplateVariableTypes == {"text", "number", "boolean", "select"}

templateVariableOk(v) ==
    /\ {"key", "label", "type"} \subseteq DOMAIN v
    /\ v.type \in TemplateVariableTypes

\* What the entry parses to: the keys the object does not know are dropped.
templateVariableData(v) == [k \in DOMAIN v \cap TemplateVariableKeys |-> v[k]]

\* templateSchema.safeParse(t).success
templateSchemaOk(t) ==
    /\ {"id", "name", "section"} \subseteq DOMAIN t
    /\ DOMAIN t \subseteq TemplateKeys
    /\ sectionSchemaOk(t.section)
    /\ "variables" \in DOMAIN t =>
           \A i \in 1..Len(t.variables) : templateVariableOk(t.variables[i])

\* What templateSchema parses a template to: `variables` and `tags`
\* default to [].
templateSchemaData(t) ==
    LET variables == IF "variables" \in DOMAIN t THEN t.variables ELSE <<>>
        parsed == [t EXCEPT !.section = sectionSchemaData(@)]
    IN  Put(Put(parsed, "variables",
                [i \in 1..Len(variables) |-> templateVariableData(variables[i])]),
            "tags", IF "tags" \in DOMAIN t THEN t.tags ELSE <<>>)

(***************************************************************************)
(* The schemas as a state machine: callers validate configurations and     *)
(* templates, with and without keys the schemas do not know.               *)
(***************************************************************************)
\* The configurations of ConfigInputs, as they are and with a top-level key
\* the schema does not know.
SchemaConfigInputs ==
    ConfigInputs \cup {Put(data, "telemetry", [enabled |-> TRUE]) : data \in ConfigInputs}

CityVariable == [key |-> "city", label |-> "City", type |-> "text"]

\* Lists of declared variables: none, a well-formed entry, an entry with a
\* key the schema does not know, an entry of a type outside the enumeration.
VariableInputs ==
    {<<>>, <<CityVariable>>, <<Put(CityVariable, "placeholder", "Sydney")>>,
     <<CityVariable, Put(CityVariable, "type", "date")>>}

TemplateInputs ==
    {LET base == [id |-> "tpl-greeting", name |-> name, section |-> section,
                  variables |-> variables]
     IN  [k \in DOMAIN base \cup extraKeys |-> IF k \in extraKeys THEN "unexpected" ELSE base[k]] :
        name \in {"Greeting", "Greeting, wide"},
        section \in {SecText, SecHero, SecStale, SecBroken},
        variables \in VariableInputs,
        extraKeys \in {{}, {"author"}, {"aiPrompt"}}}

InitSchemas ==
    /\ globalAppConfig = MkConfig(TRUE, TRUE, TRUE, Undefined)
    /\ _sectionRegistry = EmptyObject
    /\ _pageRegistry = EmptyObject
    /\ _templateRegistry = EmptyObject
    /\ uuid = 0
    /\ seoRuns = NoRuns
    /\ op = "none"
    /\ arg = Undefined
    /\ opts = [resolveShared |-> FALSE]
    /\ out = NoOutcome
    /\ heap = <<>>
    /\ returned = <<>>
    /\ memoryState = [toasts |-> <<>>]
    /\ toastTimeouts = {}

\* validationUtils.validateSafely(templateSchema, data, 'ERR_TEMPLATE')
ValidateTemplateCall(data) ==
    /\ op' = "validateTemplate"
    /\ arg' = data
    /\ out' = validateSafely(templateSchemaOk(data), templateSchemaData(data), "ERR_TEMPLATE")
    /\ UNCHANGED <<toasts, globalAppConfig, registries, uuid, seoRuns, opts, objects>>

NextSchemas ==
    \/ \E data \in SchemaConfigInputs : ValidateConfigCall(data)
    \/ \E data \in TemplateInputs : ValidateTemplateCall(data)

SpecSchemas == InitSchemas /\ [][NextSchemas]_vars

(***************************************************************************)
(* Properties of the schemas (checked under SpecSchemas).                  *)
(***************************************************************************)
\* The configuration has a key some object of appConfigSchema does not know.
ConfigHasUnknownKey(data) ==
    \/ ~(DOMAIN data \subseteq AppConfigKeys)
    \/ ~(DOMAIN data.featureFlags \subseteq FeatureFlagKeys)
    \/ /\ data.advancedConfig # Undefined
       /\ ~(DOMAIN data.advancedConfig \subseteq AdvancedConfigKeys)

\* The template has a key some object of templateSchema does not know.
TemplateHasUnknownKey(t) ==
    \/ ~(DOMAIN t \subseteq TemplateKeys)
    \/ ~(DOMAIN t.section \subseteq SectionRequiredKeys \cup SectionOptionalKeys)
    \/ \E i \in 1..Len(t.variables) : ~(DOMAIN t.variables[i] \subseteq TemplateVariableKeys)

\* C24: every object schema rejects unknown keys: an input with a property
\* the schema does not know fails validation instead of having the property
\* dropped, in particular at the top level of an AppConfig and in the
\* entries of a Template's variables list.
C24_UnknownKeysRejected ==
    /\ (op = "validateConfig" /\ ConfigHasUnknownKey(arg)) => out.status = "throw"
    /\ (op = "validateTemplate" /\ TemplateHasUnknownKey(arg)) => out.status = "throw"

(***************************************************************************)
(* The Express boundary. The request, the response and next are objects    *)
(* of the host: validatePageMiddleware writes req.validatedPage, sends     *)
(* through res.status(...).json(...) and calls next(), which hands over to *)
(* Express's router and returns.                                           *)
(***************************************************************************)
\* error.details: the issues of the failed parse on the errors
\* validateSafely throws (line 481), undefined on the others.
ErrorDetails(error) ==
    IF error.message = "Validation failed" THEN [issues |-> error.code] ELSE Undefined

ServerErrorResponse(error) ==
    [status |-> 500, body |-> [error |-> "Internal validation error",
                               code |-> "INTERNAL_ERROR"]]

\* The catch block (lines 579-592): the response sent for a thrown error.
ErrorResponse(error) ==
    IF error.name = "ValidationError"
    THEN [status |-> 400, body |-> [error |-> error.message, code |-> error.code,
                                    details |-> ErrorDetails(error)]]
    ELSE ServerErrorResponse(error)

\* req.body?.page; reading `body` of a missing request throws a TypeError.
PageOfRequest(req) ==
    IF req = Undefined
    THEN Throw("TypeError", "Cannot read properties of undefined (reading 'body')", "")
    ELSE IF req.body = Undefined \/ "page" \notin DOMAIN req.body THEN Return(Undefined)
    ELSE Return(req.body.page)

\* The try block (lines 569-578) up to next(): the validated page, or the
\* error thrown.
ValidatedPageOf(req) ==
    LET page == PageOfRequest(req)
    IN  IF page.status = "throw" THEN page
        ELSE IF page.value = Undefined
        THEN ValidationError("Page data is required", "PAGE_REQUIRED")
        ELSE validatePage(page.value, [resolveShared |-> TRUE])

\* validatePageMiddleware(req, res, next): the request after the call, the
\* responses sent and the number of calls of next.
validatePageMiddleware(req) ==
    LET validated == ValidatedPageOf(req)
    IN  IF validated.status = "throw"
        THEN [req |-> req, sent |-> <<ErrorResponse(validated)>>, calls |-> 0]
        ELSE [req |-> Put(req, "validatedPage", validated.value), sent |-> <<>>,
              calls |-> 1]

(***************************************************************************)
(* The boundary as a state machine: a request arrives, the shared-sections *)
(* collection may be written, the middleware handles the request.          *)
(***************************************************************************)
\* Requests: none at all, one without a body, one whose body has no page,
\* and one for each page of the pipeline's inputs.
RequestInputs ==
    {Undefined, [body |-> Undefined], [body |-> EmptyObject]}
    \cup {[body |-> [page |-> page]] : page \in PageInputs \ {Undefined}}

\* The store of the boundary holds the request, the response and next.
RequestOf(h) == h[1]

ResponseOf(h) == h[2]

NextOf(h) == h[3]

InitMiddleware ==
    /\ globalAppConfig \in PipelineConfigs
    /\ _sectionRegistry = EmptyObject
    /\ _pageRegistry = EmptyObject
    /\ _templateRegistry = EmptyObject
    /\ uuid = 0
    /\ seoRuns = NoRuns
    /\ op = "none"
    /\ arg \in RequestInputs
    /\ opts = [resolveShared |-> FALSE]
    /\ out = NoOutcome
    /\ heap = <<arg, [sent |-> <<>>], [calls |-> 0]>>
    /\ returned = <<>>
    /\ memoryState = [toasts |-> <<>>]
    /\ toastTimeouts = {}

ValidatePageMiddlewareCall ==
    LET handled == validatePageMiddleware(RequestOf(heap))
    IN  /\ op = "none"
        /\ op' = "validatePageMiddleware"
        /\ out' = Return(Undefined)
        /\ heap' = <<handled.req,
                     [sent |-> ResponseOf(heap).sent \o handled.sent],
                     [calls |-> NextOf(heap).calls + handled.calls]>>
        /\ UNCHANGED <<toasts, globalAppConfig, registries, uuid, seoRuns, arg, opts, returned>>

NextMiddleware ==
    \/ \E entry \in SharedEntryPool : PushSharedSection(entry)
    \/ ValidatePageMiddlewareCall

SpecMiddleware == InitMiddleware /\ [][NextMiddleware]_vars

(***************************************************************************)
(* Properties of the boundary (checked under SpecMiddleware).              *)
(***************************************************************************)
\* The request carries a page.
HasPage(req) == req # Undefined /\ req.body # Undefined /\ "page" \in DOMAIN req.body

TOAST_LIMIT == 1

KeepAll(items, limit) == items

\* items.slice(0, limit)
Slice(items, limit) == SubSeq(items, 1, IF Len(items) < limit THEN Len(items) ELSE limit)

\* action.toastId, absent from the action when undefined.
HasToastId(action) == "toastId" \in DOMAIN action

\* toastReducer(state, action): the state it returns.
toastReducer(state, action) ==
    CASE action.type = "ADD_TOAST" ->
             [state EXCEPT !.toasts = Slice(<<action.toast>> \o state.toasts, TOAST_LIMIT)]
      [] action.type = "UPDATE_TOAST" ->
             [state EXCEPT !.toasts =
                 [i \in 1..Len(state.toasts) |->
                     IF "id" \in DOMAIN action.toast /\ state.toasts[i].id = action.toast.id
                     THEN Merge(state.toasts[i], action.toast)
                     ELSE state.toasts[i]]]
      [] action.type = "DISMISS_TOAST" ->
             [state EXCEPT !.toasts =
                 [i \in 1..Len(state.toasts) |->
                     IF ~HasToastId(action) \/ state.toasts[i].id = action.toastId
                     THEN Put(state.toasts[i], "open", FALSE)
                     ELSE state.toasts[i]]]
      [] action.type = "REMOVE_TOAST" ->
             IF ~HasToastId(action) THEN [state EXCEPT !.toasts = <<>>]
             ELSE [state EXCEPT !.toasts =
                      SelectSeq(state.toasts, LAMBDA t : t.id # action.toastId)]

\* The removal queue after the reducer ran: DISMISS_TOAST queues the toast
\* named, or every toast of the list when the id is absent or empty
\* (addToRemoveQueue, lines 916-923).
QueueAfter(state, timeouts, action) ==
    IF action.type # "DISMISS_TOAST" THEN timeouts
    ELSE IF HasToastId(action) /\ action.toastId # ""
         THEN timeouts \cup {action.toastId}
    ELSE timeouts \cup {state.toasts[i].id : i \in 1..Len(state.toasts)}

(***************************************************************************)
(* The toast hook as a state machine: actions are dispatched, and the      *)
(* timers of the removal queue fire.                                       *)
(***************************************************************************)
ToastIds == {"1", "2", "3"}

ToastPool == {[id |-> id, title |-> title, open |-> TRUE] :
                 id \in ToastIds, title \in {"Saved", "Failed"}}

\* The actions dispatched: toasts added, updated in part (with or without
\* an id), dismissed and removed, one by id or all of them.
ToastActions ==
    {[type |-> "ADD_TOAST", toast |-> toast] : toast \in ToastPool}
    \cup {[type |-> "UPDATE_TOAST", toast |-> [id |-> id, title |-> "Retrying"]] :
             id \in ToastIds}
    \cup {[type |-> "UPDATE_TOAST", toast |-> [title |-> "Retrying"]]}
    \cup {[type |-> type, toastId |-> id] :
             type \in {"DISMISS_TOAST", "REMOVE_TOAST"}, id \in ToastIds}
    \cup {[type |-> type] : type \in {"DISMISS_TOAST", "REMOVE_TOAST"}}
    \cup {[type |-> "DISMISS_TOAST", toastId |-> ""]}

InitToast ==
    /\ globalAppConfig = MkConfig(TRUE, TRUE, TRUE, Undefined)
    /\ _sectionRegistry = EmptyObject
    /\ _pageRegistry = EmptyObject
    /\ _templateRegistry = EmptyObject
    /\ uuid = 0
    /\ seoRuns = NoRuns
    /\ op = "none"
    /\ arg = Undefined
    /\ opts = [resolveShared |-> FALSE]
    /\ out = NoOutcome
    /\ heap = <<>>
    /\ returned = <<>>
    /\ memoryState = [toasts |-> <<>>]
    /\ toastTimeouts = {}

\* dispatch(action)
DispatchCall(action) ==
    /\ op' = "dispatch"
    /\ arg' = action
    /\ out' = Return(Undefined)
    /\ memoryState' = toastReducer(memoryState, action)
    /\ toastTimeouts' = QueueAfter(memoryState, toastTimeouts, action)
    /\ UNCHANGED <<globalAppConfig, registries, uuid, seoRuns, opts, objects>>

\* The timer of a queued toast fires (lines 918-921).
TimeoutFires(toastId) ==
    /\ toastId \in toastTimeouts
    /\ toastTimeouts' = toastTimeouts \ {toastId}
    /\ op' = "timeout"
    /\ arg' = [type |-> "REMOVE_TOAST", toastId |-> toastId]
    /\ out' = Return(Undefined)
    /\ memoryState' = toastReducer(memoryState, [type |-> "REMOVE_TOAST", toastId |-> toastId])
    /\ UNCHANGED <<globalAppConfig, registries, uuid, seoRuns, opts, objects>>

NextToast ==
    \/ \E action \in ToastActions : DispatchCall(action)
    \/ \E toastId \in ToastIds : TimeoutFires(toastId)

SpecToast == InitToast /\ [][NextToast]_vars

(***************************************************************************)
(* Properties of the toast hook (checked under SpecToast).                 *)
(***************************************************************************)
\* The ids of the toasts of the list, in the order of the list.
ToastIdsOf(state) == [i \in 1..Len(state.toasts) |-> state.toasts[i].id]

\* C30: after any sequence of ADD_TOAST, UPDATE_TOAST, DISMISS_TOAST and
\* REMOVE_TOAST actions applied by toastReducer the toast list holds at
\* most TOAST_LIMIT (1) toast; an ADD_TOAST makes the added toast the one
\* in the list, evicting the one before; UPDATE_TOAST and DISMISS_TOAST
\* never change which toast ids are in the list.
C30_ToastLimit ==
    [][/\ Len(memoryState'.toasts) <= TOAST_LIMIT
       /\ arg'.type = "ADD_TOAST" => memoryState'.toasts = <<arg'.toast>>
       /\ arg'.type \in {"UPDATE_TOAST", "DISMISS_TOAST"} =>
              ToastIdsOf(memoryState') = ToastIdsOf(memoryState)]_vars

\* A toast was added while another was in the list, and took its place.
C30_Witness ==
    /\ op = "dispatch"
    /\ arg.type = "ADD_TOAST"
    /\ memoryState.toasts = <<arg.toast>>
    /\ toastTimeouts # {}
    /\ \A id \in toastTimeouts : id # arg.toast.id

====
